---- MODULE Spec2Model ----
(***************************************************************************)
(* Lalikan: backup scheduler for Disk ARchive (DAR).                       *)
(*                                                                         *)
(* Model of lalikan.properties.BackupProperties, of                        *)
(* lalikan.database.BackupDatabase (schedule, scan of the backup           *)
(* directory, decision) and of lalikan.runner.BackupRunner (creation of a  *)
(* backup and deletion of dispensable backups).                            *)
(*                                                                         *)
(* Time is counted in ticks.  A datetime is a number of ticks; the date    *)
(* string '%Y-%m-%d_%H%M' only has the resolution of a minute, which is    *)
(* MinuteLen ticks long.                                                   *)
(***************************************************************************)
EXTENDS Integers, Sequences, FiniteSets, TLC

\* ------------------------------------------------------------------------
\* bounds of the model
\* ------------------------------------------------------------------------

\* ticks per minute
MinuteLen == 2

\* last point in time (in ticks)
MaxTime == 9

\* longest backup interval (in ticks)
MaxInterval == 4

\* most directory entries that are faked in the backup directory
MaxFaked == 2

\* most directory entries the runner fills the backup directory with
MaxDirs == 5

\* longest time (in ticks) between the construction of the database and the
\* moment run_dar reads the clock
MaxDelay == 1

\* children of the backup directory when the steps of a run are told
\* apart
MaxStepDirs == 3

\* ------------------------------------------------------------------------
\* encodings
\* ------------------------------------------------------------------------

\* backup levels
full == 0
diff == 1
incr == 2
incr_forced == -1

\* Python's "None" as the result of needed_backup_level
NoBackup == -2

\* Python's "None" as a date
NoDate == -1

\* the date string 'None'
NoneString == -1

\* "filter_level" that passes all backup levels
all_levels == -1

backup_levels == <<full, diff, incr>>

Levels == {full, diff, incr}

Times == 0 .. MaxTime

Minutes == 0 .. (MaxTime \div MinuteLen)

VARIABLES
    interval_full,      \* option "interval_full" (in ticks)
    interval_diff,      \* option "interval_diff" (in ticks)
    interval_incr,      \* option "interval_incr" (in ticks)
    point_in_time,      \* BackupDatabase._point_in_time
    disk,               \* children of the backup directory
    last_run,           \* what the last run of BackupRunner did
    job,                \* the run of BackupRunner that is under way
    memoized,           \* BackupDatabase.__memoized
    returned,           \* what the last call of a memoized method returned
    settings,           \* the sections of the configuration file
    main                \* the run of Lalikan.py that is under way

vars == <<interval_full, interval_diff, interval_incr, point_in_time, disk,
          last_run, job, memoized, returned, settings, main>>

\* the variables of Lalikan.py
program == <<settings, main>>

\* the variables of the memoization
cache == <<memoized, returned>>

\* the point in time is set and the cached return values are kept
keep_cache == memoized

\* BackupDatabase.clear_cache: the dictionary of the cached return values
\* is empty
clear_cache == <<>>

\* no memoized method has been called since the point in time was set
NoReturn == [key |-> [function |-> "None", arg |-> NoneString], value |-> <<>>]

\* option "start_time", parsed with date_format: the first whole minute after
\* the origin of the time scale
start_time == 1 * MinuteLen

\* ------------------------------------------------------------------------
\* lalikan.properties.BackupProperties
\* ------------------------------------------------------------------------

BackupProperties(date, level) == [date |-> date, level |-> level]

\* strftime('%Y-%m-%d_%H%M'): the minute the date lies in
date_string(backup) ==
    IF backup.date = NoDate
    THEN NoneString
    ELSE backup.date \div MinuteLen

is_valid(backup) == backup.date # NoDate

\* comparison of two date strings; 'None' starts with a letter and all
\* formatted dates start with a digit
StringLess(s, t) ==
    IF s = NoneString THEN FALSE
    ELSE IF t = NoneString THEN TRUE
    ELSE s < t

\* __lt__ that compares the levels first and the date strings second
LtByLevel(self, other) ==
    IF self.level = other.level
    THEN StringLess(date_string(self), date_string(other))
    ELSE self.level < other.level

\* BackupProperties.__lt__
Lt(self, other) ==
    IF date_string(self) = date_string(other)
    THEN self.level < other.level
    ELSE StringLess(date_string(self), date_string(other))

\* BackupProperties.__eq__
Eq(self, other) ==
    date_string(self) = date_string(other) /\ self.level = other.level

\* sorted(): stable sort that only uses __lt__
RECURSIVE Insert(_, _)
Insert(s, x) ==
    IF s = <<>> THEN <<x>>
    ELSE IF Lt(x, Head(s)) THEN <<x>> \o s
    ELSE <<Head(s)>> \o Insert(Tail(s), x)

RECURSIVE Sorted(_)
Sorted(s) ==
    IF s = <<>> THEN <<>>
    ELSE Insert(Sorted(SubSeq(s, 1, Len(s) - 1)), s[Len(s)])

\* ------------------------------------------------------------------------
\* lalikan.database.BackupDatabase: schedule
\* ------------------------------------------------------------------------

accepted_backup_levels(backup_level) == 0 .. backup_level

\* inner "while" loop of _fill_schedule
RECURSIVE FillInterval(_, _, _, _)
FillInterval(t, end_time, interval, backup_level) ==
    IF t < end_time
    THEN <<BackupProperties(t, backup_level)>>
             \o FillInterval(t + interval, end_time, interval, backup_level)
    ELSE <<>>

\* outer "for" loop of _fill_schedule, starting at index n
RECURSIVE FillFrom(_, _, _, _)
FillFrom(schedule, n, interval, backup_level) ==
    IF n > Len(schedule) - 1 THEN <<>>
    ELSE FillInterval(schedule[n].date + interval, schedule[n + 1].date,
                      interval, backup_level)
             \o FillFrom(schedule, n + 1, interval, backup_level)

fill_schedule(schedule, backup_level) ==
    LET interval == IF backup_level = diff THEN interval_diff
                    ELSE interval_incr
    IN  Sorted(schedule \o FillFrom(schedule, 1, interval, backup_level))

\* UpcomingFull that takes a full backup scheduled for "now" as upcoming
RECURSIVE UpcomingFullFrom(_, _)
UpcomingFullFrom(current_start_time, now) ==
    IF current_start_time < now
    THEN UpcomingFullFrom(current_start_time + interval_full, now)
    ELSE current_start_time

\* first "while" loop of calculate_backup_schedule
RECURSIVE UpcomingFull(_, _)
UpcomingFull(current_start_time, now) ==
    IF current_start_time <= now
    THEN UpcomingFull(current_start_time + interval_full, now)
    ELSE current_start_time

calculate_backup_schedule(now) ==
    LET upcoming == UpcomingFull(start_time, now)
        previous == upcoming - interval_full
        schedule == IF previous >= start_time
                    THEN <<BackupProperties(previous, full),
                           BackupProperties(upcoming, full)>>
                    ELSE <<BackupProperties(upcoming, full)>>
    IN  IF Len(schedule) > 1
        THEN fill_schedule(fill_schedule(schedule, diff), incr)
        ELSE schedule

\* ------------------------------------------------------------------------
\* the backup directory
\* ------------------------------------------------------------------------

\* "reference_backup = None" of a "full" backup (and of faked backups)
NoReference == [date |-> NoDate, level |-> NoBackup]

\* A child of the backup directory.  Its name is "<ts>-<suffix>", where
\* "ts" is a minute formatted with date_format; a name with "junk" set
\* stands for a name of that suffix that does not match backup_regex (such
\* as "short-full").  "files" are the archive files and their checksums,
\* "catalog" is the file "<ts>-catalog.01.dar", "other" is any other file
\* in the directory, "ref" is the reference the archive was created with.
Entry(ts, suffix, junk, isdir, files, catalog, other, ref) ==
    [ts |-> ts, suffix |-> suffix, junk |-> junk, isdir |-> isdir,
     files |-> files, catalog |-> catalog, other |-> other, ref |-> ref]

Name(entry) == <<entry.ts, entry.suffix, entry.junk>>

\* backup_regex.match(dirname)
Matches(entry) == ~entry.junk

\* a timestamp that matches date_regex, but whose digits are no date and
\* time of the calendar (such as "2012-13-45_9999")
NotACalendarDate == -1

\* the timestamps that match date_regex
Timestamps == Minutes \cup {NotACalendarDate}

\* strptime(timestamp, date_format) raises ValueError
Unparsable(entry) == entry.ts \notin Minutes

\* strptime that takes the number of the minute for the date
ParsedAsTicks(entry) == BackupProperties(entry.ts, entry.suffix)

\* strptime(timestamp, date_format) and _postfixes.index(suffix)
Parsed(entry) == BackupProperties(entry.ts * MinuteLen, entry.suffix)

\* find_existing_backups does not return: strptime has raised ValueError,
\* which nothing catches.  (The operators that call find_existing_backups
\* are written for backup directories which it returns for.)
ValueError == <<[date |-> NoDate, level |-> NoBackup]>>

\* the loop over the subdirectories in find_existing_backups: a name is
\* parsed as soon as it matches, before the catalog is looked for
ScanRaises(directory) ==
    \E entry \in directory :
        entry.isdir /\ Matches(entry) /\ Unparsable(entry)

\* the loop over the subdirectories in find_existing_backups: the
\* directories that are regarded as valid backups
ValidEntries(directory) ==
    {entry \in directory :
        entry.isdir /\ Matches(entry) /\ entry.catalog}

\* the elements of a sequence
Range(s) == {s[i] : i \in 1 .. Len(s)}

\* a sequence that holds the elements of a finite set (os.listdir returns
\* the names in arbitrary order; the order does not matter, as the parsed
\* names differ in date string or level)
RECURSIVE Listed(_)
Listed(S) ==
    IF S = {} THEN <<>>
    ELSE LET x == CHOOSE y \in S : TRUE
         IN  <<x>> \o Listed(S \ {x})

\* find_existing_backups that drops the backups dated exactly at "prior_to"
find_existing_backups_before(directory, prior_to) ==
    LET existing_backups ==
            Sorted(Listed({Parsed(entry) : entry \in ValidEntries(directory)}))
        Prior(backup) == backup.date < prior_to
    IN  IF ScanRaises(directory) THEN ValueError
        ELSE IF prior_to # NoDate
        THEN SelectSeq(existing_backups, Prior)
        ELSE existing_backups

\* BackupDatabase.find_existing_backups(prior_to)
find_existing_backups(directory, prior_to) ==
    LET existing_backups ==
            Sorted(Listed({Parsed(entry) : entry \in ValidEntries(directory)}))
        Prior(backup) == backup.date <= prior_to
    IN  IF ScanRaises(directory) THEN ValueError
        ELSE IF prior_to # NoDate
        THEN SelectSeq(existing_backups, Prior)
        ELSE existing_backups

\* the last element of a sequence among the positions "found" (the first
\* one that a loop over the reversed sequence returns), or "default"
LastThat(s, found, default) ==
    IF found = {} THEN default
    ELSE s[CHOOSE i \in found : \A j \in found : j <= i]

\* the first element of a sequence among the positions "found" (the first
\* one that a loop over the sequence returns), or "default"
FirstThat(s, found, default) ==
    IF found = {} THEN default
    ELSE s[CHOOSE i \in found : \A j \in found : i <= j]

\* the backwards loop of last_existing_backup that accepts the requested
\* level only
LastExistingExact(existing_backups, backup_level) ==
    LET accepted ==
            {i \in 1 .. Len(existing_backups) :
                existing_backups[i].level = backup_level}
    IN  LastThat(existing_backups, accepted,
                 BackupProperties(NoDate, backup_level))

\* the backwards loop over the existing backups in last_existing_backup;
\* "existing_backups" is find_existing_backups(point_in_time)
LastExisting(existing_backups, backup_level) ==
    LET accepted ==
            {i \in 1 .. Len(existing_backups) :
                existing_backups[i].level
                    \in accepted_backup_levels(backup_level)}
    IN  LastThat(existing_backups, accepted,
                 BackupProperties(NoDate, backup_level))

\* last_existing_backup that loops over the existing backups forwards
first_existing_backup(directory, now, backup_level) ==
    LET existing_backups == find_existing_backups(directory, now)
        accepted ==
            {i \in 1 .. Len(existing_backups) :
                existing_backups[i].level
                    \in accepted_backup_levels(backup_level)}
    IN  FirstThat(existing_backups, accepted,
                  BackupProperties(NoDate, backup_level))

\* BackupDatabase.last_existing_backup
last_existing_backup(directory, now, backup_level) ==
    LastExisting(find_existing_backups(directory, now), backup_level)

\* ------------------------------------------------------------------------
\* lalikan.database.BackupDatabase: decision
\*
\* calculate_backup_schedule is memoized: in the operators below "schedule"
\* is its return value for the point in time "now", and "existing_backups"
\* is find_existing_backups(now).
\* ------------------------------------------------------------------------

\* BackupDatabase._current_scheduled_backup
current_scheduled_backup(schedule, now, backup_level) ==
    LET current ==
            {i \in 1 .. Len(schedule) :
                /\ schedule[i].level \in accepted_backup_levels(backup_level)
                /\ schedule[i].date <= now}
    IN  LastThat(schedule, current, BackupProperties(NoDate, backup_level))

\* the date of the Epoch, datetime.datetime(1970, 1, 1): earlier than every
\* point in time
Epoch == -1

\* the loop over the backup levels that takes a scheduled backup of a
\* stricter level which is as old as the last existing backup
RECURSIVE LastScheduledFromAsOld(_, _, _, _, _)
LastScheduledFromAsOld(schedule, now, test_level, backup_level, existing_date) ==
    LET backup_needed == current_scheduled_backup(schedule, now, test_level)
    IN  IF test_level = backup_level THEN backup_needed
        ELSE IF is_valid(backup_needed)
                /\ backup_needed.date >= existing_date
        THEN backup_needed
        ELSE LastScheduledFromAsOld(schedule, now, test_level + 1,
                                    backup_level, existing_date)

\* the loop over the backup levels in last_scheduled_backup
RECURSIVE LastScheduledFrom(_, _, _, _, _)
LastScheduledFrom(schedule, now, test_level, backup_level, existing_date) ==
    LET backup_needed == current_scheduled_backup(schedule, now, test_level)
    IN  IF test_level = backup_level THEN backup_needed
        ELSE IF is_valid(backup_needed)
                /\ backup_needed.date > existing_date
        THEN backup_needed
        ELSE LastScheduledFrom(schedule, now, test_level + 1, backup_level,
                               existing_date)

\* last_scheduled_backup that compares the scheduled backups of the stricter
\* levels with the last existing "full" backup
LastScheduledStricter(schedule, existing_backups, now, backup_level) ==
    LET last_existing == LastExisting(existing_backups, full)
        last_existing_date == IF is_valid(last_existing)
                              THEN last_existing.date
                              ELSE Epoch
    IN  LastScheduledFrom(schedule, now, full, backup_level,
                          last_existing_date)

\* body of BackupDatabase.last_scheduled_backup
LastScheduled(schedule, existing_backups, now, backup_level) ==
    LET last_existing == LastExisting(existing_backups, backup_level)
        last_existing_date == IF is_valid(last_existing)
                              THEN last_existing.date
                              ELSE Epoch
    IN  LastScheduledFrom(schedule, now, full, backup_level,
                          last_existing_date)

\* BackupDatabase.last_scheduled_backup
last_scheduled_backup(directory, now, backup_level) ==
    LastScheduled(calculate_backup_schedule(now),
                  find_existing_backups(directory, now), now, backup_level)

\* "assert False" at the end of next_scheduled_backup
AssertionFailed == [date |-> NoDate, level |-> NoBackup]

\* next_scheduled_backup that takes a backup scheduled at the point in
\* time itself as the next one
NextScheduledAtOrAfter(scheduled_backups, now, backup_level) ==
    LET upcoming ==
            {i \in 1 .. Len(scheduled_backups) :
                /\ scheduled_backups[i].level
                       \in accepted_backup_levels(backup_level)
                /\ scheduled_backups[i].date >= now}
    IN  FirstThat(scheduled_backups, upcoming, AssertionFailed)

\* the loop over the scheduled backups in next_scheduled_backup
NextScheduled(scheduled_backups, now, backup_level) ==
    LET upcoming ==
            {i \in 1 .. Len(scheduled_backups) :
                /\ scheduled_backups[i].level
                       \in accepted_backup_levels(backup_level)
                /\ scheduled_backups[i].date > now}
    IN  FirstThat(scheduled_backups, upcoming, AssertionFailed)

\* BackupDatabase.next_scheduled_backup
next_scheduled_backup(now, backup_level) ==
    NextScheduled(calculate_backup_schedule(now), now, backup_level)

\* days_overdue that takes an existing backup dated exactly at the last
\* scheduled backup as older than it
ScheduledBackupLenient(schedule, existing_backups, now, backup_level) ==
    LET last_scheduled ==
            LastScheduled(schedule, existing_backups, now, backup_level)
        last_existing == LastExisting(existing_backups, backup_level)
        next_scheduled == NextScheduled(schedule, now, backup_level)
    IN  IF ~is_valid(last_scheduled) THEN next_scheduled
        ELSE IF ~is_valid(last_existing) THEN last_scheduled
        ELSE IF last_existing.date <= last_scheduled.date THEN last_scheduled
        ELSE next_scheduled

\* the scheduled backup that days_overdue measures the time from
ScheduledBackup(schedule, existing_backups, now, backup_level) ==
    LET last_scheduled ==
            LastScheduled(schedule, existing_backups, now, backup_level)
        last_existing == LastExisting(existing_backups, backup_level)
        next_scheduled == NextScheduled(schedule, now, backup_level)
    IN  IF ~is_valid(last_scheduled) THEN next_scheduled
        ELSE IF ~is_valid(last_existing) THEN last_scheduled
        ELSE IF last_existing.date < last_scheduled.date THEN last_scheduled
        ELSE next_scheduled

\* body of BackupDatabase.days_overdue (in ticks)
DaysOverdue(schedule, existing_backups, now, backup_level) ==
    now - ScheduledBackup(schedule, existing_backups, now, backup_level).date

\* BackupDatabase.days_overdue (in ticks)
days_overdue(directory, now, backup_level) ==
    DaysOverdue(calculate_backup_schedule(now),
                find_existing_backups(directory, now), now, backup_level)

\* needed_backup_level that takes a backup as needed only when it is
\* overdue by more than nothing
RECURSIVE NeededFromStrict(_, _, _, _, _)
NeededFromStrict(schedule, existing_backups, now, n, force_backup) ==
    IF n > Len(backup_levels)
    THEN IF force_backup /\ now >= start_time
         THEN incr_forced
         ELSE NoBackup
    ELSE IF DaysOverdue(schedule, existing_backups, now, backup_levels[n])
                > 0
    THEN backup_levels[n]
    ELSE NeededFromStrict(schedule, existing_backups, now, n + 1,
                          force_backup)

\* needed_backup_level that forces a backup before the schedule begins
RECURSIVE NeededFromAnytime(_, _, _, _, _)
NeededFromAnytime(schedule, existing_backups, now, n, force_backup) ==
    IF n > Len(backup_levels)
    THEN IF force_backup
         THEN incr_forced
         ELSE NoBackup
    ELSE IF DaysOverdue(schedule, existing_backups, now, backup_levels[n])
                >= 0
    THEN backup_levels[n]
    ELSE NeededFromAnytime(schedule, existing_backups, now, n + 1,
                           force_backup)

\* the loop over the backup levels in needed_backup_level
RECURSIVE NeededFrom(_, _, _, _, _)
NeededFrom(schedule, existing_backups, now, n, force_backup) ==
    IF n > Len(backup_levels)
    THEN IF force_backup /\ now >= start_time
         THEN incr_forced
         ELSE NoBackup
    ELSE IF DaysOverdue(schedule, existing_backups, now, backup_levels[n])
                >= 0
    THEN backup_levels[n]
    ELSE NeededFrom(schedule, existing_backups, now, n + 1, force_backup)

\* BackupDatabase.needed_backup_level
needed_backup_level(directory, now, force_backup) ==
    NeededFrom(calculate_backup_schedule(now),
               find_existing_backups(directory, now), now, 1, force_backup)

\* ------------------------------------------------------------------------
\* lalikan.database.BackupDatabase: how a call ends.  A call ends with an
\* exception or with a return value; an exception raised by a method that
\* is called passes through the caller, as nothing catches it.
\* ------------------------------------------------------------------------

\* the argument None and an argument that is a string (such as 'incr')
\* where a backup level is expected
NoneArgument == -100
StringArgument == -101

\* the levels that the queries are called with
Arguments == {-1, full, diff, incr, 3, NoneArgument, StringArgument}

\* the call raises "exception"
Raises(exception) == [exception |-> exception, value |-> <<>>]

\* the call returns "value"
Returns(value) == [exception |-> "None", value |-> value]

\* BackupDatabase._check_backup_level
check_backup_level(backup_level) ==
    IF backup_level \notin Range(backup_levels)
    THEN Raises("ValueError")
    ELSE Returns(NoneString)

\* BackupProperties.__init__ with the date None
invalid_backup(level) ==
    IF level \notin {0, 1, 2}
    THEN Raises("ValueError")
    ELSE Returns(BackupProperties(NoDate, level))

\* BackupDatabase._accepted_backup_levels: "backup_level + 1" raises
\* TypeError for None and for a string
slice_backup_levels(backup_level) ==
    IF backup_level \in {NoneArgument, StringArgument}
    THEN Raises("TypeError")
    ELSE Returns(accepted_backup_levels(backup_level))

\* find_existing_backups that takes a backup directory which cannot be
\* listed for an empty one
list_existing_backups_or_none(listable, directory, prior_to) ==
    IF ~listable THEN Returns(<<>>)
    ELSE IF ScanRaises(directory) THEN Raises("ValueError")
    ELSE Returns(find_existing_backups(directory, prior_to))

\* BackupDatabase.find_existing_backups; "listable" is whether
\* os.listdir(backup_directory) returns (it raises OSError when the
\* directory does not exist or cannot be read)
list_existing_backups(listable, directory, prior_to) ==
    IF ~listable THEN Raises("OSError")
    ELSE IF ScanRaises(directory) THEN Raises("ValueError")
    ELSE Returns(find_existing_backups(directory, prior_to))

\* BackupDatabase.last_existing_backup
call_last_existing_backup(listable, directory, now, backup_level) ==
    LET existing_backups == list_existing_backups(listable, directory, now)
        accepted_levels == slice_backup_levels(backup_level)
        accepted ==
            {i \in 1 .. Len(existing_backups.value) :
                existing_backups.value[i].level \in accepted_levels.value}
    IN  IF existing_backups.exception # "None" THEN existing_backups
        ELSE IF Len(existing_backups.value) = 0
        THEN invalid_backup(backup_level)
        ELSE IF accepted_levels.exception # "None" THEN accepted_levels
        ELSE IF accepted # {}
        THEN Returns(LastThat(existing_backups.value, accepted, NoReference))
        ELSE invalid_backup(backup_level)

\* BackupDatabase.last_scheduled_backup
call_last_scheduled_backup(listable, directory, now, backup_level) ==
    LET checked == check_backup_level(backup_level)
        last_existing ==
            call_last_existing_backup(listable, directory, now, backup_level)
    IN  IF checked.exception # "None" THEN checked
        ELSE IF last_existing.exception # "None" THEN last_existing
        ELSE Returns(last_scheduled_backup(directory, now, backup_level))

\* BackupDatabase.next_scheduled_backup
call_next_scheduled_backup(now, backup_level) ==
    LET checked == check_backup_level(backup_level)
    IN  IF checked.exception # "None" THEN checked
        ELSE Returns(next_scheduled_backup(now, backup_level))

\* BackupDatabase.days_overdue
call_days_overdue(listable, directory, now, backup_level) ==
    LET last_scheduled ==
            call_last_scheduled_backup(listable, directory, now, backup_level)
        last_existing ==
            call_last_existing_backup(listable, directory, now, backup_level)
        next_scheduled == call_next_scheduled_backup(now, backup_level)
    IN  IF last_scheduled.exception # "None" THEN last_scheduled
        ELSE IF last_existing.exception # "None" THEN last_existing
        ELSE IF next_scheduled.exception # "None" THEN next_scheduled
        ELSE Returns(days_overdue(directory, now, backup_level))

\* BackupDatabase.needed_backup_level: the loop over the backup levels
\* begins with days_overdue of the level "full"
call_needed_backup_level(listable, directory, now, force_backup) ==
    LET overdue == call_days_overdue(listable, directory, now, full)
    IN  IF overdue.exception # "None" THEN overdue
        ELSE Returns(needed_backup_level(directory, now, force_backup))

\* ------------------------------------------------------------------------
\* lalikan.runner.BackupRunner
\* ------------------------------------------------------------------------

\* find_existing_backups(filter_level, prior_to) that passes the levels
\* accepted for "filter_level" instead of that level only
find_existing_backups_accepted(directory, filter_level, prior_to) ==
    LET existing_backups == find_existing_backups(directory, prior_to)
        Passes(backup) ==
            backup.level \in accepted_backup_levels(filter_level)
    IN  IF filter_level = all_levels
        THEN existing_backups
        ELSE SelectSeq(existing_backups, Passes)

\* BackupDatabase.find_existing_backups(filter_level, prior_to), as
\* BackupRunner.find_existing_backups calls it: "filter all backup levels
\* other than this one; -1 passes all backup levels"
find_existing_backups_filtered(directory, filter_level, prior_to) ==
    LET existing_backups == find_existing_backups(directory, prior_to)
        Passes(backup) == backup.level = filter_level
    IN  IF filter_level = all_levels
        THEN existing_backups
        ELSE SelectSeq(existing_backups, Passes)

\* BackupProperties.base_name as the name of a child of the backup
\* directory
base_name(backup) == <<date_string(backup), backup.level, FALSE>>

\* delete_archive_files that unlinks the archive files and the checksums,
\* but not the catalog
delete_archive_files_but_catalog(directory, backups) ==
    LET names == {base_name(backups[i]) : i \in 1 .. Len(backups)}
    IN  {IF entry.isdir /\ Name(entry) \in names
         THEN [entry EXCEPT !.files = FALSE]
         ELSE entry : entry \in directory}

\* BackupRunner.delete_archive_files for every backup of a list: the
\* archive files, the catalog ("*.dar") and the checksums are unlinked
delete_archive_files(directory, backups) ==
    LET names == {base_name(backups[i]) : i \in 1 .. Len(backups)}
    IN  {IF entry.isdir /\ Name(entry) \in names
         THEN [entry EXCEPT !.files = FALSE, !.catalog = FALSE]
         ELSE entry : entry \in directory}

\* BackupRunner.remove_empty_directories
remove_empty_directories(directory) ==
    {entry \in directory :
        ~(entry.isdir /\ ~entry.files /\ ~entry.catalog /\ ~entry.other)}

\* delete_old_backups that looks for dispensable backups of all levels
delete_old_backups_of_all_levels(directory, backup_level) ==
    LET existing_backups ==
            find_existing_backups_filtered(directory, backup_level, NoDate)
        previous_date == existing_backups[Len(existing_backups) - 1].date
    IN  IF backup_level = incr \/ Len(existing_backups) <= 1
        THEN directory
        ELSE remove_empty_directories(
                 delete_archive_files(directory,
                     find_existing_backups_filtered(directory, all_levels,
                                                    previous_date)))

\* delete_old_backups that takes the backup just created as the limit and
\* does not stop when it is the only one of its level
delete_old_backups_up_to_current(directory, backup_level) ==
    LET existing_backups ==
            find_existing_backups_filtered(directory, backup_level, NoDate)
        current_date == existing_backups[Len(existing_backups)].date
    IN  IF backup_level = incr \/ Len(existing_backups) = 0
        THEN directory
        ELSE remove_empty_directories(
                 delete_archive_files(directory,
                     find_existing_backups_filtered(directory, incr,
                                                    current_date)))

\* BackupRunner.delete_old_backups
delete_old_backups(directory, backup_level) ==
    LET existing_backups ==
            find_existing_backups_filtered(directory, backup_level, NoDate)
        previous_date == existing_backups[Len(existing_backups) - 1].date
        without_diffs ==
            delete_archive_files(directory,
                find_existing_backups_filtered(directory, diff,
                                               previous_date))
        without_incrs ==
            delete_archive_files(without_diffs,
                find_existing_backups_filtered(without_diffs, incr,
                                               previous_date))
        existing_diffs ==
            find_existing_backups_filtered(without_incrs, diff, NoDate)
        current_diff_date == existing_diffs[Len(existing_diffs)].date
    IN  IF backup_level = incr THEN directory
        ELSE IF Len(existing_backups) <= 1 THEN directory
        ELSE IF backup_level = full
        THEN remove_empty_directories(
                 IF Len(existing_diffs) > 0
                 THEN delete_archive_files(without_incrs,
                          find_existing_backups_filtered(without_incrs, incr,
                                                         current_diff_date))
                 ELSE without_incrs)
        ELSE remove_empty_directories(
                 delete_archive_files(directory,
                     find_existing_backups_filtered(directory, incr,
                                                    previous_date)))

\* how far a run of run_dar gets: "dar --create" fails (and leaves no file
\* or some files behind), "dar --isolate" fails (and leaves no catalog or
\* a catalog behind), or both succeed (a warning included)
Outcomes ==
    {"create fails", "create fails, files left",
     "isolate fails", "isolate fails, catalog left", "done"}

\* the outcome of a run: the level of the backup that was to be created,
\* whether an OSError has been raised, whether delete_old_backups has
\* been called, and the backups that it has deleted
Run(level, error, pruned, deleted) ==
    [level |-> level, error |-> error, pruned |-> pruned,
     deleted |-> deleted]

NoRun == Run(NoBackup, FALSE, FALSE, {})

\* a run of BackupRunner while it is under way: the statement it has
\* reached, the argument "force_backup", the level and the timestamp of
\* the backup it creates, and the steps it has done, each with the exit
\* status of the command (or 0)
Job(pc, force_backup, level, timestamp, steps) ==
    [pc |-> pc, force_backup |-> force_backup, level |-> level,
     timestamp |-> timestamp, steps |-> steps]

\* no run is under way
NoJob == Job("idle", FALSE, NoBackup, NoDate, <<>>)

\* Lalikan.py while it is under way: the statement it has reached, the
\* list "sections" (as indices of the sections of the configuration
\* file), the number of sections the loop has left behind, the variable
\* "errors_occurred", what BackupRunner has done for each section (a run,
\* and the exception it has raised), and the exit status
Main(pc, sections, n, errors_occurred, runs, status) ==
    [pc |-> pc, sections |-> sections, n |-> n,
     errors_occurred |-> errors_occurred, runs |-> runs, status |-> status]

\* the process has no exit status yet
NoStatus == -1

\* Lalikan.py has not been started
NoMain == Main("idle", <<>>, 0, FALSE, <<>>, NoStatus)

\* BackupRunner.run_dar at the point in time "now", later by "delay" than
\* the point in time of the database
run_dar(directory, now, backup_level, delay, outcome) ==
    LET reference_backup ==
            IF backup_level = full THEN NoReference
            ELSE IF backup_level = diff
            THEN last_existing_backup(directory, now, full)
            ELSE last_existing_backup(directory, now, incr)
        timestamp == (now + delay) \div MinuteLen
        Created(files, catalog) ==
            directory \cup {Entry(timestamp, backup_level, FALSE, TRUE,
                                  files, catalog, FALSE, reference_backup)}
        pruned == delete_old_backups(Created(TRUE, TRUE), backup_level)
        Existing(dir) == Range(find_existing_backups(dir, NoDate))
        Raised(dir) == [disk |-> dir,
                        run |-> Run(backup_level, TRUE, FALSE, {})]
    IN  IF \E entry \in directory :
              Name(entry) = <<timestamp, backup_level, FALSE>>
        THEN Raised(directory)
        ELSE IF outcome = "create fails"
        THEN Raised(Created(FALSE, FALSE))
        ELSE IF outcome = "create fails, files left"
        THEN Raised(Created(TRUE, FALSE))
        ELSE IF outcome = "isolate fails"
        THEN Raised(Created(TRUE, FALSE))
        ELSE IF outcome = "isolate fails, catalog left"
        THEN Raised(Created(TRUE, TRUE))
        ELSE [disk |-> pruned,
              run |-> Run(backup_level, FALSE, TRUE,
                          Existing(Created(TRUE, TRUE)) \ Existing(pruned))]

\* BackupRunner.create_backup, after the pre-run command and before the
\* post-run command; "needed" is needed_backup_level(force_backup)
create_backup(directory, now, needed, delay, outcome) ==
    IF needed = NoBackup
    THEN [disk |-> directory, run |-> NoRun]
    ELSE run_dar(directory, now,
                 IF needed = incr_forced THEN incr ELSE needed,
                 delay, outcome)

\* ------------------------------------------------------------------------
\* specification
\* ------------------------------------------------------------------------

Init ==
    /\ interval_full \in 1 .. MaxInterval
    /\ interval_diff \in 1 .. interval_full
    /\ interval_incr \in 1 .. interval_diff
    /\ point_in_time = 0
    /\ disk = {}
    /\ last_run = NoRun
    /\ job = NoJob
    /\ memoized = <<>>
    /\ returned = NoReturn
    /\ settings = <<>>
    /\ main = NoMain

\* setter of BackupDatabase.point_in_time
SetPointInTime ==
    /\ \E time_point \in Times : point_in_time' = time_point
    /\ point_in_time' # point_in_time
    /\ memoized' = clear_cache
    /\ returned' = NoReturn
    /\ UNCHANGED <<program, interval_full, interval_diff, interval_incr, disk,
                   last_run, job>>

\* TestBackupDatabase.__simulate_backup with has_files and has_catalog set:
\* a valid (but faked) backup appears in the backup directory
SimulateBackup ==
    /\ Cardinality(disk) < MaxFaked
    /\ \E timestamp \in Minutes, postfix \in Levels :
        LET entry == Entry(timestamp, postfix, FALSE, TRUE, TRUE, TRUE,
                           FALSE, NoReference)
        IN  /\ \A other \in disk : Name(other) # Name(entry)
            /\ disk' = disk \cup {entry}
    /\ UNCHANGED <<program, interval_full, interval_diff, interval_incr,
                   point_in_time, last_run, job, cache>>

Next == SetPointInTime \/ SimulateBackup

Spec == Init /\ [][Next]_vars

\* ------------------------------------------------------------------------
\* specification of the runs of a section, as Lalikan.py starts them: the
\* backup directory holds what the runs have left in it
\* ------------------------------------------------------------------------

\* the settings of a section, and an empty backup directory
InitRunner ==
    /\ interval_full \in {MaxInterval - 1, MaxInterval}
    /\ interval_diff \in {2, 3}
    /\ interval_incr = 1
    /\ point_in_time = 0
    /\ disk = {}
    /\ last_run = NoRun
    /\ job = NoJob
    /\ memoized = <<>>
    /\ returned = NoReturn
    /\ settings = <<>>
    /\ main = NoMain

\* time passes between the runs
Tick ==
    /\ job.pc = "idle"
    /\ point_in_time < MaxTime
    /\ point_in_time' = point_in_time + 1
    /\ UNCHANGED <<program, interval_full, interval_diff, interval_incr, disk,
                   last_run, job, cache>>

\* BackupRunner(settings, section, force_backup): the database is created
\* at the point in time, empty directories are removed, and the backup
\* that is needed is created "delay" later
RunSection ==
    \E force_backup \in BOOLEAN, delay \in 0 .. MaxDelay :
        /\ point_in_time + delay <= MaxTime
        /\ \E cleaned \in {remove_empty_directories(disk)} :
           \E needed \in {needed_backup_level(cleaned, point_in_time,
                                              force_backup)} :
           \E outcome \in Outcomes :
           \E result \in {create_backup(cleaned, point_in_time, needed,
                                        delay, outcome)} :
               /\ Cardinality(result.disk) <= MaxDirs
               /\ disk' = result.disk
               /\ last_run' = result.run
               /\ point_in_time' = point_in_time + delay
               /\ UNCHANGED <<program, interval_full, interval_diff, interval_incr,
                              job, cache>>

NextRunner == Tick \/ RunSection

SpecRunner == InitRunner /\ [][NextRunner]_vars

\* ------------------------------------------------------------------------
\* specification of the scan of the backup directory: anything may lie in
\* the backup directory
\* ------------------------------------------------------------------------

InitScan ==
    /\ interval_full = MaxInterval
    /\ interval_diff = 2
    /\ interval_incr = 1
    /\ point_in_time = 0
    /\ disk = {}
    /\ last_run = NoRun
    /\ job = NoJob
    /\ memoized = <<>>
    /\ returned = NoReturn
    /\ settings = <<>>
    /\ main = NoMain

\* TestBackupDatabase.__simulate_backup with any arguments (a directory
\* with or without archive files and catalog), or a plain file of such a
\* name
SimulateEntry ==
    /\ Cardinality(disk) < MaxFaked
    /\ \E timestamp \in Timestamps, postfix \in Levels,
          junk, isdir, has_files, has_catalog \in BOOLEAN :
        LET entry == Entry(timestamp, postfix, junk, isdir,
                           isdir /\ has_files,
                           isdir /\ has_files /\ has_catalog,
                           FALSE, NoReference)
        IN  /\ ~isdir => ~has_files /\ ~has_catalog
            /\ ~has_files => ~has_catalog
            /\ \A other \in disk : Name(other) # Name(entry)
            /\ disk' = disk \cup {entry}
    /\ UNCHANGED <<program, interval_full, interval_diff, interval_incr,
                   point_in_time, last_run, job, cache>>

NextScan == SetPointInTime \/ SimulateEntry

SpecScan == InitScan /\ [][NextScan]_vars

\* ------------------------------------------------------------------------
\* specification of the memoization: the point in time is set, backups
\* appear, and the memoized methods are called on one instance
\* ------------------------------------------------------------------------

\* memoize_function: the key of a call, made of the name of the function
\* and of repr() of its argument (NoneString when it has none)
Key(function, arg) == [function |-> function, arg |-> arg]

\* the key of calculate_backup_schedule()
ScheduleKey == Key("calculate_backup_schedule", NoneString)

\* memoize_function: the dictionary after a call with the key "key"; the
\* function is called (its return value is "value") when the key is not
\* in it
Memoize(memo, key, value) ==
    IF key \in DOMAIN memo THEN memo
    ELSE [k \in DOMAIN memo \cup {key} |->
             IF k = key THEN value ELSE memo[k]]

InitCache ==
    /\ interval_full = MaxInterval
    /\ interval_diff = 2
    /\ interval_incr = 1
    /\ point_in_time = 0
    /\ disk = {}
    /\ last_run = NoRun
    /\ job = NoJob
    /\ memoized = <<>>
    /\ returned = NoReturn
    /\ settings = <<>>
    /\ main = NoMain

\* BackupDatabase.calculate_backup_schedule() is called
CallCalculateBackupSchedule ==
    /\ memoized' = Memoize(memoized, ScheduleKey,
                           calculate_backup_schedule(point_in_time))
    /\ returned' = [key |-> ScheduleKey, value |-> memoized'[ScheduleKey]]
    /\ UNCHANGED <<program, interval_full, interval_diff, interval_incr,
                   point_in_time, disk, last_run, job>>

\* BackupDatabase.next_scheduled_backup(backup_level) is called; when its
\* return value is not cached it calls calculate_backup_schedule()
CallNextScheduledBackup ==
    /\ \E backup_level \in Levels :
        LET key == Key("next_scheduled_backup", backup_level)
            scheduled ==
                Memoize(memoized, ScheduleKey,
                        calculate_backup_schedule(point_in_time))
        IN  /\ memoized' =
                   Memoize(IF key \in DOMAIN memoized THEN memoized
                           ELSE scheduled,
                           key,
                           NextScheduled(scheduled[ScheduleKey],
                                         point_in_time, backup_level))
            /\ returned' = [key |-> key, value |-> memoized'[key]]
    /\ UNCHANGED <<program, interval_full, interval_diff, interval_incr,
                   point_in_time, disk, last_run, job>>

NextCache ==
    \/ SetPointInTime \/ SimulateBackup
    \/ CallCalculateBackupSchedule \/ CallNextScheduledBackup

SpecCache == InitCache /\ [][NextCache]_vars

\* ------------------------------------------------------------------------
\* specification of the queries: the queries of the database are called
\* with any level, while the backup directory can be listed or not
\* ------------------------------------------------------------------------

\* what a query that was called with "arg" has ended with; one query is
\* called for every assignment to the point in time (what a query ends
\* with does not depend on the calls before it)
Answer(function, arg, listable, outcome) ==
    [key |-> Key(function, arg), value |-> outcome, listable |-> listable]

\* the queries that take a backup level
Query(function, listable, directory, now, backup_level) ==
    CASE function = "last_existing_backup" ->
             call_last_existing_backup(listable, directory, now, backup_level)
      [] function = "last_scheduled_backup" ->
             call_last_scheduled_backup(listable, directory, now,
                                        backup_level)
      [] function = "next_scheduled_backup" ->
             call_next_scheduled_backup(now, backup_level)
      [] function = "days_overdue" ->
             call_days_overdue(listable, directory, now, backup_level)

LevelQueries ==
    {"last_existing_backup", "last_scheduled_backup",
     "next_scheduled_backup", "days_overdue"}

InitQueries ==
    /\ interval_full = MaxInterval
    /\ interval_diff = 2
    /\ interval_incr = 1
    /\ point_in_time = 0
    /\ disk = {}
    /\ last_run = NoRun
    /\ job = NoJob
    /\ memoized = <<>>
    /\ returned = NoReturn
    /\ settings = <<>>
    /\ main = NoMain

\* find_existing_backups(point_in_time) is called
QueryExisting ==
    /\ returned.key = NoReturn.key
    /\ \E listable \in BOOLEAN :
        returned' = Answer("find_existing_backups", point_in_time, listable,
                           list_existing_backups(listable, disk,
                                                 point_in_time))
    /\ UNCHANGED <<program, interval_full, interval_diff, interval_incr,
                   point_in_time, disk, last_run, job, memoized>>

\* a query that takes a backup level is called
QueryLevel ==
    /\ returned.key = NoReturn.key
    /\ \E function \in LevelQueries, backup_level \in Arguments,
          listable \in BOOLEAN :
        returned' = Answer(function, backup_level, listable,
                           Query(function, listable, disk, point_in_time,
                                 backup_level))
    /\ UNCHANGED <<program, interval_full, interval_diff, interval_incr,
                   point_in_time, disk, last_run, job, memoized>>

\* needed_backup_level(force_backup) is called
QueryNeeded ==
    /\ returned.key = NoReturn.key
    /\ \E force_backup, listable \in BOOLEAN :
        returned' = Answer("needed_backup_level", force_backup, listable,
                           call_needed_backup_level(listable, disk,
                                                    point_in_time,
                                                    force_backup))
    /\ UNCHANGED <<program, interval_full, interval_diff, interval_incr,
                   point_in_time, disk, last_run, job, memoized>>

NextQueries ==
    \/ SetPointInTime \/ SimulateBackup
    \/ QueryExisting \/ QueryLevel \/ QueryNeeded

SpecQueries == InitQueries /\ [][NextQueries]_vars

\* ------------------------------------------------------------------------
\* specification of the options: the intervals are whatever the section
\* of the configuration file holds, and the schedule is calculated loop
\* iteration by loop iteration
\* ------------------------------------------------------------------------

\* an option that float() raises ValueError for (such as "weekly")
NotANumber == -100

\* the values of the options "interval_full", "interval_diff" and
\* "interval_incr", in ticks
Options == {NotANumber} \cup (-1 .. 2)

\* BackupDatabase.interval_full, interval_diff, interval_incr:
\* timedelta(float(option))
get_interval(option) ==
    IF option = NotANumber THEN Raises("ValueError") ELSE Returns(option)

\* the inner "while" loop of _fill_schedule ends for every pair of
\* neighbours in "schedule": it is not entered, or "start_time" grows
FillEnds(schedule, step) ==
    \/ step > 0
    \/ \A n \in 1 .. Len(schedule) - 1 :
           ~(schedule[n].date + step < schedule[n + 1].date)

\* the first pair of neighbours for which the inner loop is entered
FirstFilled(schedule, step) ==
    CHOOSE n \in 1 .. Len(schedule) - 1 :
        /\ schedule[n].date + step < schedule[n + 1].date
        /\ \A m \in 1 .. n - 1 :
               ~(schedule[m].date + step < schedule[m + 1].date)

\* the "full" backups calculate_backup_schedule starts from, "upcoming"
\* being "current_start_time" after the first loop
FullBackups(upcoming) ==
    IF upcoming - interval_full >= start_time
    THEN <<BackupProperties(upcoming - interval_full, full),
           BackupProperties(upcoming, full)>>
    ELSE <<BackupProperties(upcoming, full)>>

\* calculate_backup_schedule ends with "outcome"
EndSchedule(outcome) ==
    /\ job' = NoJob
    /\ returned' = [key |-> ScheduleKey, value |-> outcome]

InitOptions ==
    /\ interval_full \in Options
    /\ interval_diff \in Options
    /\ interval_incr \in Options
    /\ point_in_time \in Times
    /\ disk = {}
    /\ last_run = NoRun
    /\ job = NoJob
    /\ memoized = <<>>
    /\ returned = NoReturn
    /\ settings = <<>>
    /\ main = NoMain

\* calculate_backup_schedule is called: "current_start_time =
\* self.start_time"; job.timestamp is the variable of the loop, job.steps
\* are the values it has taken
CalculateSchedule ==
    /\ job.pc = "idle"
    /\ returned.key = NoReturn.key
    /\ job' = Job("while", FALSE, full, start_time, <<start_time>>)
    /\ UNCHANGED <<program, interval_full, interval_diff, interval_incr,
                   point_in_time, disk, last_run, cache>>

\* calculate_backup_schedule: an iteration of "while current_start_time <=
\* self.point_in_time", or the end of the loop and the subtraction of
\* interval_full
WhileNotUpcoming ==
    /\ job.pc = "while"
    /\ Len(job.steps) <= MaxTime
    /\ IF get_interval(interval_full).exception # "None"
       THEN EndSchedule(get_interval(interval_full))
       ELSE IF job.timestamp <= point_in_time
       THEN /\ job' = [job EXCEPT
                          !.timestamp = @ + interval_full,
                          !.steps = Append(@, job.timestamp + interval_full)]
            /\ UNCHANGED returned
       ELSE /\ job' = [job EXCEPT !.pc = "fill", !.level = diff,
                                  !.steps = <<>>]
            /\ UNCHANGED returned
    /\ UNCHANGED <<program, interval_full, interval_diff, interval_incr,
                   point_in_time, disk, last_run, memoized>>

\* calculate_backup_schedule after the first loop, when every loop of
\* _fill_schedule ends: the schedule is returned, or a getter of an
\* interval raises
FillSchedule ==
    /\ job.pc = "fill"
    /\ job.steps = <<>>
    /\ LET schedule == FullBackups(job.timestamp)
       IN  IF Len(schedule) = 1
           THEN EndSchedule(Returns(schedule))
           ELSE IF get_interval(interval_diff).exception # "None"
           THEN EndSchedule(get_interval(interval_diff))
           ELSE /\ FillEnds(schedule, interval_diff)
                /\ IF get_interval(interval_incr).exception # "None"
                   THEN EndSchedule(get_interval(interval_incr))
                   ELSE /\ FillEnds(fill_schedule(schedule, diff),
                                    interval_incr)
                        /\ EndSchedule(Returns(
                               calculate_backup_schedule(point_in_time)))
    /\ UNCHANGED <<program, interval_full, interval_diff, interval_incr,
                   point_in_time, disk, last_run, memoized>>

\* _fill_schedule: an iteration of "while start_time < end_time" for the
\* first level and the first pair of neighbours that it does not end for
WhileNotFilled ==
    /\ job.pc = "fill"
    /\ Len(job.steps) <= MaxTime
    /\ Len(FullBackups(job.timestamp)) > 1
    /\ get_interval(interval_diff).exception = "None"
    /\ LET schedule == FullBackups(job.timestamp)
           level == IF FillEnds(schedule, interval_diff) THEN incr ELSE diff
           step == IF level = diff THEN interval_diff ELSE interval_incr
           filled == IF level = diff THEN schedule
                     ELSE fill_schedule(schedule, diff)
           start_time_ == IF job.steps = <<>>
                          THEN filled[FirstFilled(filled, step)].date + step
                          ELSE job.timestamp + step
       IN  /\ get_interval(step).exception = "None"
           /\ ~FillEnds(filled, step)
           /\ job' = [job EXCEPT !.level = level,
                                  !.timestamp = start_time_,
                                  !.steps = Append(@, start_time_)]
    /\ UNCHANGED <<program, interval_full, interval_diff, interval_incr,
                   point_in_time, disk, last_run, cache>>

NextOptions ==
    CalculateSchedule \/ WhileNotUpcoming \/ FillSchedule \/ WhileNotFilled

SpecOptions == InitOptions /\ [][NextOptions]_vars

\* ------------------------------------------------------------------------
\* specification of the scenarios of the unit tests: the time scale has
\* its origin at 2012-01-01 19:59, so that start_time is 2012-01-01 20:00
\* ("start_time = 2012-01-01_2000" in test.ini)
\* ------------------------------------------------------------------------

\* datetime.timedelta(days=1)
Day == 24 * 60 * MinuteLen

\* the settings of the scenarios (interval_full, interval_diff and
\* interval_incr of 10, 3 and 1 days) and the settings of the section
\* "Test1" of the unit tests (9.5, 4.0 and 1.0 days)
Configurations ==
    {[full |-> 10 * Day, diff |-> 3 * Day, incr |-> Day],
     [full |-> (19 * Day) \div 2, diff |-> 4 * Day, incr |-> Day]}

\* the points in time of the scenarios: 2012-01-01 19:59 and 20:00,
\* 2012-01-02 20:00, 20:01 and 20:13, 2012-01-05 20:00, 2012-01-11 07:59,
\* 08:00 and 20:00
Moments ==
    {start_time - MinuteLen, start_time,
     start_time + Day, start_time + Day + MinuteLen,
     start_time + Day + 13 * MinuteLen, start_time + 4 * Day,
     start_time + (19 * Day) \div 2 - MinuteLen,
     start_time + (19 * Day) \div 2, start_time + 10 * Day}

InitScenario ==
    /\ \E configuration \in Configurations :
        /\ interval_full = configuration.full
        /\ interval_diff = configuration.diff
        /\ interval_incr = configuration.incr
    /\ point_in_time = start_time - MinuteLen
    /\ disk = {}
    /\ last_run = NoRun
    /\ job = NoJob
    /\ memoized = <<>>
    /\ returned = NoReturn
    /\ settings = <<>>
    /\ main = NoMain

\* setter of BackupDatabase.point_in_time, called with a later point in
\* time of the scenarios
SetMoment ==
    /\ \E time_point \in Moments :
        /\ time_point > point_in_time
        /\ point_in_time' = time_point
    /\ memoized' = clear_cache
    /\ returned' = NoReturn
    /\ UNCHANGED <<program, interval_full, interval_diff, interval_incr, disk,
                   last_run, job>>

NextScenario == SetMoment \/ SimulateBackup

SpecScenario == InitScenario /\ [][NextScenario]_vars

\* ------------------------------------------------------------------------
\* specification of the settings: the options of a section are present
\* with a text, present without one, or missing, and Settings.get is
\* called for them
\* ------------------------------------------------------------------------

\* an option that the section does not hold, and one whose value is ''
MissingOption == -102
EmptyOption == -103

\* what the section may hold for an option
Stored == {MissingOption, EmptyOption} \cup Options

\* the options of the intervals
OptionNames == {"interval_full", "interval_diff", "interval_incr"}

\* ConfigParser.get(section, option_name) without a fallback
Configured(option_name) ==
    CASE option_name = "interval_full" -> interval_full
      [] option_name = "interval_diff" -> interval_diff
      [] option_name = "interval_incr" -> interval_incr

\* Settings.get for an option that the section holds "value" for;
\* "optimised" is whether the interpreter runs with -O, which takes the
\* "assert" statements out
get(value, allow_empty, optimised) ==
    IF allow_empty
    THEN Returns(IF value = MissingOption THEN EmptyOption ELSE value)
    ELSE IF value = MissingOption THEN Raises("NoOptionError")
    ELSE IF value = EmptyOption /\ ~optimised THEN Raises("AssertionError")
    ELSE Returns(value)

InitSettings ==
    /\ interval_full \in Stored
    /\ interval_diff \in Stored
    /\ interval_incr \in Stored
    /\ point_in_time = 0
    /\ disk = {}
    /\ last_run = NoRun
    /\ job = NoJob
    /\ memoized = <<>>
    /\ returned = NoReturn
    /\ settings = <<>>
    /\ main = NoMain

\* Settings.get(section, option_name, allow_empty) is called
GetOption ==
    /\ \E option_name \in OptionNames, allow_empty, optimised \in BOOLEAN :
        returned' = [key |-> Key("get", option_name),
                     value |-> get(Configured(option_name), allow_empty,
                                   optimised),
                     allow_empty |-> allow_empty]
    /\ UNCHANGED <<program, interval_full, interval_diff, interval_incr,
                   point_in_time, disk, last_run, job, memoized>>

NextSettings == GetOption

SpecSettings == InitSettings /\ [][NextSettings]_vars

\* ------------------------------------------------------------------------
\* specification of the steps of a run: BackupRunner.create_backup and
\* BackupRunner.run_dar statement by statement
\* ------------------------------------------------------------------------

\* what Popen.wait() returns for "dar": -9 when the process has been
\* killed (by signal 9), 0, the two statuses that run_dar takes for
\* warnings (11 after "dar --create", 5 after "dar --isolate"), and 1 for
\* the other statuses above 0
ExitStatuses == {-9, 0, 1, 5, 11}

\* a step of a run: its name, the exit status of "dar", and whether an
\* OSError has been raised
Step(name, retcode, raised) ==
    [step |-> name, retcode |-> retcode, raised |-> raised]

\* run_dar after "dar --create": status 11 is a warning, any other status
\* above 0 raises OSError (through notify_user)
CreateRaises(retcode) == retcode # 11 /\ retcode > 0

\* run_dar after "dar --isolate": status 5 is a warning, any other status
\* above 0 raises OSError
IsolateRaises(retcode) == retcode # 5 /\ retcode > 0

\* create_backup without "finally": an error ends the run at once
NoFinally == "done"

\* create_backup, "finally": the statement that is reached when a
\* statement of the "try" block raises, or returns, or is the last one
Finally == "post-run"

\* the directory that run_dar has made for the backup of the run
BaseDirectory ==
    CHOOSE entry \in disk :
        Name(entry) = <<job.timestamp, job.level, FALSE>>

InitSteps ==
    /\ interval_full = MaxInterval
    /\ interval_diff = 2
    /\ interval_incr = 1
    /\ point_in_time = 0
    /\ disk = {}
    /\ last_run = NoRun
    /\ job = NoJob
    /\ memoized = <<>>
    /\ returned = NoReturn
    /\ settings = <<>>
    /\ main = NoMain

\* BackupRunner(settings, section, force_backup): the database is created
\* at the point in time and create_backup is called
Begin ==
    /\ job.pc = "idle"
    /\ point_in_time + MaxDelay <= MaxTime
    /\ Cardinality(remove_empty_directories(disk)) < MaxStepDirs
    /\ \E force_backup \in BOOLEAN :
           job' = Job("pre-run", force_backup, NoBackup, NoDate, <<>>)
    /\ UNCHANGED <<program, interval_full, interval_diff, interval_incr,
                   point_in_time, disk, last_run, cache>>

\* create_backup: the pre-run command is executed and has ended; what it
\* writes to stderr raises OSError (through notify_user)
PreRun ==
    /\ job.pc = "pre-run"
    /\ \E raised \in BOOLEAN :
           job' = [job EXCEPT
                      !.pc = IF raised THEN Finally ELSE "decision",
                      !.steps = Append(@, Step("pre-run", 0, raised))]
    /\ UNCHANGED <<program, interval_full, interval_diff, interval_incr,
                   point_in_time, disk, last_run, cache>>

\* create_backup: empty directories are removed and needed_backup_level is
\* called, which returns a level or None or raises (the backup directory
\* cannot be read); without a level create_backup returns
Decide ==
    /\ job.pc = "decision"
    /\ \/ /\ disk' = remove_empty_directories(disk)
          /\ job' = [job EXCEPT
                        !.pc = Finally,
                        !.steps = Append(@, Step("decision", 0, TRUE))]
       \/ \E cleaned \in {remove_empty_directories(disk)} :
          \E needed \in {needed_backup_level(cleaned, point_in_time,
                                             job.force_backup)} :
              /\ disk' = cleaned
              /\ job' = [job EXCEPT
                            !.pc = IF needed = NoBackup THEN Finally
                                   ELSE "create",
                            !.level = IF needed = incr_forced THEN incr
                                      ELSE needed,
                            !.steps = Append(@,
                                Step("decision", 0, FALSE))]
    /\ UNCHANGED <<program, interval_full, interval_diff, interval_incr,
                   point_in_time, last_run, cache>>

\* run_dar: os.mkdir raises (the directory cannot be made), or the
\* reference is looked up, the directory of the backup is made "delay"
\* after the point in time of the database (os.mkdir raises when it
\* exists), and "dar --create" is executed and has ended; it writes the
\* archive files when it succeeds
CreateArchive ==
    /\ job.pc = "create"
    /\ \/ /\ point_in_time' = point_in_time
          /\ disk' = disk
          /\ job' = [job EXCEPT !.pc = Finally]
       \/ \E delay \in 0 .. MaxDelay, retcode \in ExitStatuses,
             files \in BOOLEAN :
           LET timestamp == (point_in_time + delay) \div MinuteLen
               reference_backup ==
                   IF job.level = full THEN NoReference
                   ELSE IF job.level = diff
                   THEN last_existing_backup(disk, point_in_time, full)
                   ELSE last_existing_backup(disk, point_in_time, incr)
               base_directory ==
                   Entry(timestamp, job.level, FALSE, TRUE, files, FALSE,
                         FALSE, reference_backup)
           IN  /\ retcode \in {0, 11} => files
               /\ point_in_time' = point_in_time + delay
               /\ IF \E entry \in disk :
                         Name(entry) = <<timestamp, job.level, FALSE>>
                  THEN /\ disk' = disk
                       /\ job' = [job EXCEPT !.pc = Finally]
                  ELSE /\ disk' = disk \cup {base_directory}
                       /\ job' = [job EXCEPT
                                     !.pc = IF CreateRaises(retcode)
                                            THEN Finally
                                            ELSE "isolate",
                                     !.timestamp = timestamp,
                                     !.steps = Append(@,
                                         Step("create", retcode,
                                              CreateRaises(retcode)))]
    /\ UNCHANGED <<program, interval_full, interval_diff, interval_incr, last_run,
                   cache>>

\* run_dar: "dar --isolate" is executed and has ended; it writes the
\* catalog when it succeeds, which takes the archive files
IsolateCatalog ==
    /\ job.pc = "isolate"
    /\ \E retcode \in ExitStatuses, catalog \in BOOLEAN :
           /\ retcode \in {0, 5} => catalog /\ BaseDirectory.files
           /\ disk' = (disk \ {BaseDirectory}) \cup
                          {[BaseDirectory EXCEPT !.catalog = catalog]}
           /\ job' = [job EXCEPT
                         !.pc = IF IsolateRaises(retcode)
                                THEN Finally ELSE "prune",
                         !.steps = Append(@,
                             Step("isolate", retcode,
                                  IsolateRaises(retcode)))]
    /\ UNCHANGED <<program, interval_full, interval_diff, interval_incr,
                   point_in_time, last_run, cache>>

\* run_dar: delete_old_backups is called; it returns, or it raises (a
\* file or a directory cannot be removed) before it has deleted anything
\* or when it has deleted the files
Prune ==
    /\ job.pc = "prune"
    /\ \/ /\ disk' = disk
          /\ job' = [job EXCEPT
                        !.pc = Finally,
                        !.steps = Append(@, Step("prune", 0, TRUE))]
       \/ \E raised \in BOOLEAN :
              /\ disk' = delete_old_backups(disk, job.level)
              /\ job' = [job EXCEPT
                            !.pc = Finally,
                            !.steps = Append(@, Step("prune", 0, raised))]
    /\ UNCHANGED <<program, interval_full, interval_diff, interval_incr,
                   point_in_time, last_run, cache>>

\* create_backup, "finally": the post-run command is executed and has
\* ended
PostRun ==
    /\ job.pc = "post-run"
    /\ job' = [job EXCEPT !.pc = "done",
                          !.steps = Append(@, Step("post-run", 0, FALSE))]
    /\ UNCHANGED <<program, interval_full, interval_diff, interval_incr,
                   point_in_time, disk, last_run, cache>>

\* BackupRunner(...) has returned or has raised
Return ==
    /\ job.pc = "done"
    /\ job' = NoJob
    /\ UNCHANGED <<program, interval_full, interval_diff, interval_incr,
                   point_in_time, disk, last_run, cache>>

NextSteps ==
    \/ Tick \/ Begin \/ PreRun \/ Decide \/ CreateArchive
    \/ IsolateCatalog \/ Prune \/ PostRun \/ Return

SpecSteps == InitSteps /\ [][NextSteps]_vars

\* the steps of a run where every statement that is reached is executed
\* and every command that is waited for ends
FairSteps ==
    /\ WF_vars(PreRun) /\ WF_vars(Decide) /\ WF_vars(CreateArchive)
    /\ WF_vars(IsolateCatalog) /\ WF_vars(Prune) /\ WF_vars(PostRun)
    /\ WF_vars(Return)

\* the section is run for the first time late after its start time,
\* with an empty backup directory
InitStepsLate ==
    /\ interval_full = MaxInterval
    /\ interval_diff = 2
    /\ interval_incr = 1
    /\ point_in_time = MaxTime - MaxDelay - 2
    /\ disk = {}
    /\ last_run = NoRun
    /\ job = NoJob
    /\ memoized = <<>>
    /\ returned = NoReturn
    /\ settings = <<>>
    /\ main = NoMain

SpecStepsFair == InitStepsLate /\ [][NextSteps]_vars /\ FairSteps


\* ------------------------------------------------------------------------
\* specification of the program: Lalikan.py runs the sections of the
\* configuration file one after the other
\* ------------------------------------------------------------------------

\* the number of sections of the configuration file
MaxSections == 2

\* what a section holds for an interval: nothing, a text that is no
\* number, or a number
SectionValues == {MissingOption, NotANumber, 1}

\* a section of the configuration file
Section(full_, diff_, incr_) ==
    [interval_full |-> full_, interval_diff |-> diff_,
     interval_incr |-> incr_]

\* the configuration files
ConfigurationFiles ==
    UNION {[1 .. length ->
               {Section(full_, diff_, incr_) :
                   full_ \in SectionValues, diff_ \in SectionValues,
                   incr_ \in SectionValues}] :
           length \in 1 .. MaxSections}

\* BackupDatabase.interval_full, interval_diff or interval_incr for the
\* option that the section holds "value" for
read_interval(value) ==
    IF get(value, FALSE, FALSE).exception # "None"
    THEN get(value, FALSE, FALSE)
    ELSE get_interval(get(value, FALSE, FALSE).value)

\* create_backup reads the three intervals before it asks for the level
\* of the backup: the exception that the first one that fails raises, or
\* "None"
read_intervals(section) ==
    IF read_interval(section.interval_full).exception # "None"
    THEN read_interval(section.interval_full).exception
    ELSE IF read_interval(section.interval_diff).exception # "None"
    THEN read_interval(section.interval_diff).exception
    ELSE read_interval(section.interval_incr).exception

\* "except" catches nothing
ExceptNothing(exception) == FALSE

\* "except OSError as err"
Except(exception) == exception = "OSError"

\* what BackupRunner(settings, section, force_backup) has done when it
\* returns or raises
Ran(run, exception) == [run |-> run, exception |-> exception]

InitProgram ==
    /\ interval_full = 1
    /\ interval_diff = 1
    /\ interval_incr = 1
    /\ point_in_time = 0
    /\ disk = {}
    /\ last_run = NoRun
    /\ job = NoJob
    /\ memoized = <<>>
    /\ returned = NoReturn
    /\ settings \in ConfigurationFiles
    /\ main = NoMain

\* parse_command_line: "--list" exits, a section that is not defined
\* exits with status 1, a section that is defined is the one that is run,
\* and without "--section" all sections are run
ParseCommandLine ==
    /\ main.pc = "idle"
    /\ \/ main' = [main EXCEPT !.pc = "exit", !.status = 0]
       \/ main' = [main EXCEPT !.pc = "exit", !.status = 1]
       \/ \E section \in 1 .. Len(settings) :
              main' = [main EXCEPT !.pc = "for", !.sections = <<section>>]
       \/ main' = [main EXCEPT
                      !.pc = "for",
                      !.sections = [i \in 1 .. Len(settings) |-> i]]
    /\ UNCHANGED <<settings, interval_full, interval_diff, interval_incr,
                   point_in_time, disk, last_run, job, cache>>

\* an iteration of "for n, section in enumerate(sections)": BackupRunner
\* raises what reading the intervals raises, or it raises OSError, or it
\* returns; the backup directory of a section may hold anything, so that
\* a run needs any level or none, and deletes something or nothing, and
\* OSError is raised before or after "dar" is run and the backups are
\* deleted. An exception that "except" does not catch ends the process
\* with status 1.
RunSectionOfMain ==
    /\ main.pc = "for"
    /\ main.n < Len(main.sections)
    /\ LET section == settings[main.sections[main.n + 1]]
           Iteration(ran) ==
               main' = [main EXCEPT
                   !.pc = IF ran.exception = "None" \/ Except(ran.exception)
                          THEN "for" ELSE "exit",
                   !.n = @ + 1,
                   !.errors_occurred = @ \/ Except(ran.exception),
                   !.runs = Append(@, ran),
                   !.status = IF ran.exception = "None"
                                 \/ Except(ran.exception)
                              THEN NoStatus ELSE 1]
       IN  IF read_intervals(section) # "None"
           THEN Iteration(Ran(NoRun, read_intervals(section)))
           ELSE \E level \in Levels \cup {NoBackup}, error \in BOOLEAN,
                   pruned \in BOOLEAN, deleted \in BOOLEAN :
                    /\ pruned => level # NoBackup
                    /\ deleted => pruned
                    /\ Iteration(Ran(Run(level, error, pruned,
                                         IF deleted THEN {level} ELSE {}),
                                     IF error THEN "OSError" ELSE "None"))
    /\ UNCHANGED <<settings, interval_full, interval_diff, interval_incr,
                   point_in_time, disk, last_run, job, cache>>

\* the end of the loop: "exit(1)" when errors have occurred, and the end
\* of the script without them
Exit ==
    /\ main.pc = "for"
    /\ main.n = Len(main.sections)
    /\ main' = [main EXCEPT
                   !.pc = "exit",
                   !.status = IF main.errors_occurred THEN 1 ELSE 0]
    /\ UNCHANGED <<settings, interval_full, interval_diff, interval_incr,
                   point_in_time, disk, last_run, job, cache>>

NextProgram == ParseCommandLine \/ RunSectionOfMain \/ Exit

SpecProgram == InitProgram /\ [][NextProgram]_vars

\* ------------------------------------------------------------------------
\* specification of the ideal operation: from the start time on, the
\* backup that is needed is taken at the time of every scheduled backup,
\* and the old backups are deleted after it
\* ------------------------------------------------------------------------

\* the scheduled backups whose time is "now"
ScheduledAt(now) ==
    {backup \in Range(calculate_backup_schedule(now)) : backup.date = now}

\* the settings of a section, and an empty backup directory at the start
\* time
InitIdeal ==
    /\ interval_full \in {3, 4, 6, 8}
    /\ interval_diff \in {1, 2, 4}
    /\ interval_incr \in {1, 2}
    /\ interval_diff <= interval_full
    /\ interval_incr <= interval_diff
    /\ point_in_time = start_time
    /\ disk = {}
    /\ last_run = NoRun
    /\ job = NoJob
    /\ memoized = <<>>
    /\ returned = NoReturn
    /\ settings = <<>>
    /\ main = NoMain

\* at the time of a scheduled backup needed_backup_level(False) is called,
\* and run_dar creates the backup of the level it returns, names the
\* directory after the minute of the point in time (os.mkdir raises when
\* it exists) and calls delete_old_backups; job holds the level that was
\* returned and the time
TakeNeeded ==
    /\ ScheduledAt(point_in_time) # {}
    /\ job.timestamp # point_in_time
    /\ \E needed \in {needed_backup_level(disk, point_in_time, FALSE)} :
       \E result \in {create_backup(disk, point_in_time, needed, 0,
                                    "done")} :
           /\ disk' = result.disk
           /\ last_run' = result.run
           /\ job' = Job("idle", FALSE, needed, point_in_time, <<>>)
    /\ UNCHANGED <<program, interval_full, interval_diff, interval_incr,
                   point_in_time, cache>>

\* time passes, after the backup has been taken when one is scheduled
Wait ==
    /\ ScheduledAt(point_in_time) # {} => job.timestamp = point_in_time
    /\ point_in_time < MaxTime
    /\ point_in_time' = point_in_time + 1
    /\ UNCHANGED <<program, interval_full, interval_diff, interval_incr,
                   disk, last_run, job, cache>>

NextIdeal == TakeNeeded \/ Wait

SpecIdeal == InitIdeal /\ [][NextIdeal]_vars

\* ------------------------------------------------------------------------
\* properties of the decision
\* ------------------------------------------------------------------------

\* the levels a backup is due for
DueLevels(directory, now) ==
    LET schedule == calculate_backup_schedule(now)
        existing_backups == find_existing_backups(directory, now)
    IN  {level \in Levels :
            DaysOverdue(schedule, existing_backups, now, level) >= 0}

Results == {full, diff, incr, incr_forced, NoBackup}

\* C1: needed_backup_level returns the first level, in the order full,
\* diff, incr, whose days_overdue is >= 0; if no level is due it returns
\* incr_forced when the backup is forced and the point in time is not
\* before start_time, and None otherwise.  The result is one of full, diff,
\* incr, incr_forced and None, and forcing changes nothing when a level is
\* due.
C1_NeededBackupLevel ==
    \A force_backup \in BOOLEAN :
        LET needed == needed_backup_level(disk, point_in_time, force_backup)
            due == DueLevels(disk, point_in_time)
        IN  /\ needed \in Results
            /\ due # {} =>
                /\ needed \in due
                /\ \A level \in due : needed <= level
                /\ needed = needed_backup_level(disk, point_in_time,
                                                ~force_backup)
            /\ due = {} =>
                needed = IF force_backup /\ point_in_time >= start_time
                         THEN incr_forced
                         ELSE NoBackup

\* C1 (witness): a "diff" is due although a "full" is not, whether forced
\* or not
C1_Witness ==
    /\ DueLevels(disk, point_in_time) = {diff, incr}
    /\ needed_backup_level(disk, point_in_time, TRUE) = diff
    /\ needed_backup_level(disk, point_in_time, FALSE) = diff

\* the schedule at the point in time
Schedule == calculate_backup_schedule(point_in_time)

\* C5: at and after start_time the schedule has two or more entries, its
\* first and last entries are "full" backups, the point in time lies
\* between them (first.date <= now < last.date), the entries are strictly
\* increasing by date, and no "diff" or "incr" has the date of a "full" or
\* "diff".
C5_ScheduleWellFormed ==
    point_in_time >= start_time =>
        /\ Len(Schedule) >= 2
        /\ Schedule[1].level = full
        /\ Schedule[Len(Schedule)].level = full
        /\ Schedule[1].date <= point_in_time
        /\ point_in_time < Schedule[Len(Schedule)].date
        /\ \A i \in 1 .. Len(Schedule) - 1 :
               Schedule[i].date < Schedule[i + 1].date
        /\ \A i, j \in 1 .. Len(Schedule) :
               /\ Schedule[i].level \in {diff, incr}
               /\ Schedule[j].level \in {full, diff}
               /\ i # j
               => Schedule[i].date # Schedule[j].date


\* the latest start_time + k * interval_full that is not after "now"
CycleStart(now) ==
    start_time + ((now - start_time) \div interval_full) * interval_full

\* the dates from + j * interval (j >= 1) that lie strictly before "to"
Grid(from, to, interval) ==
    {from + j * interval : j \in 1 .. (to - from)} \cap (from + 1 .. to - 1)

\* the entries the schedule of the cycle that starts at F is said to
\* consist of
CycleEntries(F) ==
    LET U == F + interval_full
        diffs == Grid(F, U, interval_diff)
        bounds == {F, U} \cup diffs
        Adjacent(a, b) ==
            a < b /\ \A c \in bounds : ~(a < c /\ c < b)
        incrs == UNION {Grid(pair[1], pair[2], interval_incr) :
                           pair \in {p \in bounds \X bounds :
                                        Adjacent(p[1], p[2])}}
    IN  {BackupProperties(F, full), BackupProperties(U, full)}
            \cup {BackupProperties(t, diff) : t \in diffs}
            \cup {BackupProperties(t, incr) : t \in incrs}

\* C6: at and after start_time the schedule consists exactly of the "full"
\* backup F of the running cycle, the upcoming "full" backup U = F +
\* interval_full, the "diff" backups F + j * interval_diff before U and,
\* between adjacent "full" or "diff" backups a and b, the "incr" backups
\* a + j * interval_incr before b.  It is the same at every point in time
\* of the cycle and changes to the next cycle at U.
C6_ScheduleContents ==
    point_in_time >= start_time =>
        LET F == CycleStart(point_in_time)
            U == F + interval_full
        IN  /\ Range(Schedule) = CycleEntries(F)
            /\ Len(Schedule) = Cardinality(CycleEntries(F))
            /\ \A now \in F .. U - 1 :
                   calculate_backup_schedule(now) = Schedule
            /\ Range(calculate_backup_schedule(U)) = CycleEntries(U)

\* C8: before start_time the schedule is the single "full" backup at
\* start_time, no backup of any level has been scheduled, days_overdue is
\* negative for every level and no backup is needed, forced or not,
\* whatever the backup directory holds.
C8_BeforeStart ==
    point_in_time < start_time =>
        /\ Schedule = <<BackupProperties(start_time, full)>>
        /\ \A level \in Levels :
            /\ ~is_valid(last_scheduled_backup(disk, point_in_time, level))
            /\ days_overdue(disk, point_in_time, level) < 0
        /\ \A force_backup \in BOOLEAN :
            needed_backup_level(disk, point_in_time, force_backup) = NoBackup

\* C8 (witness): before start_time, with a backup in the backup directory
\* that is not younger than the point in time
C8_Witness ==
    /\ point_in_time < start_time
    /\ \E level \in Levels :
           is_valid(last_existing_backup(disk, point_in_time, level))


\* every backup in the backup directory is dated at or before "now"
NoneLater(directory, now) ==
    \A entry \in ValidEntries(directory) : entry.ts * MinuteLen <= now

\* C7 (as stated): with the backup directory unchanged, a backup level L
\* that is needed at the point in time is followed at every later point in
\* time by L, "full", "diff" or (if forced) incr_forced, never by None.
C7_NeedMonotonic ==
    \A force_backup \in BOOLEAN : \A later \in Times :
        LET needed == needed_backup_level(disk, point_in_time, force_backup)
            then == needed_backup_level(disk, later, force_backup)
        IN  later > point_in_time /\ needed # NoBackup =>
                /\ then # NoBackup
                /\ then \in {needed, full, diff}
                       \cup (IF force_backup THEN {incr_forced} ELSE {})

\* C7 (amended): with the backup directory unchanged and no backup in it
\* dated after the point in time, a needed level "full", "diff" or "incr"
\* is followed at every later point in time by the same level, "full" or
\* "diff", and incr_forced is followed by any level or incr_forced; the
\* need never falls back to None.
C7_NeedMonotonicAmended ==
    \A force_backup \in BOOLEAN : \A later \in Times :
        LET needed == needed_backup_level(disk, point_in_time, force_backup)
            then == needed_backup_level(disk, later, force_backup)
        IN  /\ later > point_in_time
            /\ needed # NoBackup
            /\ NoneLater(disk, point_in_time)
            => /\ then # NoBackup
               /\ needed \in Levels => then \in {needed, full, diff}
               /\ needed = incr_forced => then \in Levels \cup {incr_forced}

\* C7 (witness): an "incr" is needed and there is a later point in time at
\* which a "diff" is needed
C7_Witness ==
    /\ NoneLater(disk, point_in_time)
    /\ disk # {}
    /\ needed_backup_level(disk, point_in_time, FALSE) = incr
    /\ \E later \in Times :
        /\ later > point_in_time
        /\ needed_backup_level(disk, later, FALSE) = diff


\* the latest scheduled backup that is not after the point in time and
\* whose level is accepted for "level": the last one in the order of the
\* schedule, which is the order of the date strings, then of the levels
\* (and of the dates, for equal date strings and levels)
LatestScheduled(level) ==
    LET candidates == {backup \in Range(Schedule) :
                          /\ backup.level \in accepted_backup_levels(level)
                          /\ backup.date <= point_in_time}
        Before(a, b) == Lt(a, b) \/ (~Lt(b, a) /\ a.date < b.date)
    IN  IF candidates = {} THEN BackupProperties(NoDate, level)
        ELSE CHOOSE backup \in candidates :
                 \A other \in candidates : ~Before(backup, other)

\* the last existing backup at the point in time
LastExistingNow(level) == last_existing_backup(disk, point_in_time, level)

\* "scheduled" is valid and newer than "existing" (or "existing" is not
\* valid)
Newer(scheduled, existing) ==
    /\ is_valid(scheduled)
    /\ is_valid(existing) => scheduled.date > existing.date

\* C10 (as stated): last_scheduled(full) is the latest scheduled "full";
\* last_scheduled(diff) is that "full" if it is newer than the last
\* existing "full", else the latest scheduled "diff" or "full";
\* last_scheduled(incr) is that "full" if it is newer than the last
\* existing "full", else the latest scheduled "diff" or "full" if that is
\* newer than the last existing "diff" or "full", else the latest scheduled
\* backup of any level.
C10_LastScheduled ==
    /\ last_scheduled_backup(disk, point_in_time, full)
           = LatestScheduled(full)
    /\ last_scheduled_backup(disk, point_in_time, diff)
           = IF Newer(LatestScheduled(full), LastExistingNow(full))
             THEN LatestScheduled(full)
             ELSE LatestScheduled(diff)
    /\ last_scheduled_backup(disk, point_in_time, incr)
           = IF Newer(LatestScheduled(full), LastExistingNow(full))
             THEN LatestScheduled(full)
             ELSE IF Newer(LatestScheduled(diff), LastExistingNow(diff))
             THEN LatestScheduled(diff)
             ELSE LatestScheduled(incr)

\* C10 (amended): as C10, but a scheduled backup of a stricter level is
\* compared with the last existing backup that is accepted for the level
\* asked for (for "diff": the last existing "diff" or "full"; for "incr":
\* the last existing backup of any level), and "latest" is the last entry
\* in the order of the schedule.
C10_LastScheduledAmended ==
    /\ last_scheduled_backup(disk, point_in_time, full)
           = LatestScheduled(full)
    /\ last_scheduled_backup(disk, point_in_time, diff)
           = IF Newer(LatestScheduled(full), LastExistingNow(diff))
             THEN LatestScheduled(full)
             ELSE LatestScheduled(diff)
    /\ last_scheduled_backup(disk, point_in_time, incr)
           = IF Newer(LatestScheduled(full), LastExistingNow(incr))
             THEN LatestScheduled(full)
             ELSE IF Newer(LatestScheduled(diff), LastExistingNow(incr))
             THEN LatestScheduled(diff)
             ELSE LatestScheduled(incr)

\* C10 (witness): a "diff" has been scheduled after the last existing
\* "diff" or "full", but an "incr" exists that is not older than it, so
\* that the last scheduled "incr" is an "incr"
C10_Witness ==
    /\ is_valid(LastExistingNow(full))
    /\ ~Newer(LatestScheduled(full), LastExistingNow(full))
    /\ Newer(LatestScheduled(diff), LastExistingNow(diff))
    /\ ~Newer(LatestScheduled(diff), LastExistingNow(incr))
    /\ last_scheduled_backup(disk, point_in_time, incr).level = incr


\* the levels stricter than "level" whose latest scheduled backup is valid
\* and newer than the last existing backup that is accepted for "level"
Qualifying(level) ==
    {test_level \in Levels :
        /\ test_level < level
        /\ Newer(LatestScheduled(test_level), LastExistingNow(level))}

\* C34: last_scheduled(L) is the latest scheduled backup not after the
\* point in time that is accepted for the first level T from "full" up to
\* L (L excluded) for which that backup is valid and newer than the last
\* existing backup accepted for L itself; when there is no such T it is
\* the latest scheduled backup not after the point in time that is
\* accepted for L, or an invalid backup of level L. "Latest" is the last
\* entry in the order of the schedule.
C34_LastScheduledOfLevel ==
    \A level \in Levels :
        last_scheduled_backup(disk, point_in_time, level)
            = IF Qualifying(level) = {}
              THEN LatestScheduled(level)
              ELSE LatestScheduled(
                       CHOOSE test_level \in Qualifying(level) :
                           \A other \in Qualifying(level) :
                               test_level <= other)

\* C34 (witness): the latest scheduled "full" is newer than the last
\* existing "full" but not newer than the last existing "diff", so that
\* last_scheduled("diff") is a "diff", and no stricter level qualifies
\* for "incr" either
C34_Witness ==
    /\ is_valid(LastExistingNow(full))
    /\ Newer(LatestScheduled(full), LastExistingNow(full))
    /\ ~Newer(LatestScheduled(full), LastExistingNow(diff))
    /\ last_scheduled_backup(disk, point_in_time, diff).level = diff
    /\ Qualifying(incr) = {}


\* ------------------------------------------------------------------------
\* properties of the scan of the backup directory
\* ------------------------------------------------------------------------

\* the backups that stand for the children of the backup directory which
\* are directories, have a name that matches "<date>-(full|diff|incr)" with
\* a date of the calendar, and hold the file "<date>-catalog.01.dar"
Gated(directory) ==
    {BackupProperties(child.ts * MinuteLen, child.suffix) :
        child \in {entry \in directory :
                      /\ entry.isdir
                      /\ ~entry.junk
                      /\ entry.ts \in Minutes
                      /\ entry.catalog}}

\* the backups find_existing_backups returns: none when it raises
Returned(directory) ==
    IF find_existing_backups(directory, NoDate) = ValueError
    THEN <<>>
    ELSE find_existing_backups(directory, NoDate)

\* C9: find_existing_backups returns a backup for a child of the backup
\* directory if and only if the child is a directory, its name matches
\* "<date>-(full|diff|incr)" and it holds the file "<date>-catalog.01.dar";
\* nothing is returned for plain files, for directories of other names and
\* for matching directories without a catalog.
C9_CatalogGating ==
    /\ Range(Returned(disk)) = Gated(disk)
    /\ Len(Returned(disk)) = Cardinality(Gated(disk))

\* C24: a child of the backup directory whose name cannot be parsed into
\* a backup, be it a name that does not match backup_regex or a matching
\* name whose digits are no date of the calendar, is skipped without an
\* error: find_existing_backups returns, and it returns every valid backup
\* whose name can be parsed.
C24_UnparsableSkipped ==
    /\ find_existing_backups(disk, NoDate) # ValueError
    /\ \A entry \in ValidEntries(disk) :
           ~Unparsable(entry) =>
               Parsed(entry) \in Range(find_existing_backups(disk, NoDate))


\* ------------------------------------------------------------------------
\* properties of the runs
\* ------------------------------------------------------------------------

\* the valid backups of a level in a backup directory
Backups(directory, level) ==
    {BackupProperties(entry.ts * MinuteLen, entry.suffix) :
        entry \in {child \in directory :
                      /\ child.isdir
                      /\ ~child.junk
                      /\ child.catalog
                      /\ child.suffix = level}}

\* C2: a run never deletes a "full" backup: what delete_old_backups has
\* deleted holds no "full" backup, and every "full" backup in the backup
\* directory is still there after every step.
C2_NeverDeletesFull ==
    [][/\ \A backup \in last_run'.deleted : backup.level # full
       /\ Backups(disk, full) \subseteq Backups(disk', full)]_vars

\* C2 (witness): the third "full" backup has been created, and
\* delete_old_backups has deleted a "diff" and an "incr" backup
C2_Witness ==
    /\ last_run.level = full
    /\ last_run.pruned
    /\ Cardinality(Backups(disk, full)) >= 2
    /\ \E backup \in last_run.deleted : backup.level = diff
    /\ \E backup \in last_run.deleted : backup.level = incr

\* the valid backup that "reference" names is in the backup directory
Survives(reference) ==
    /\ reference.level \in Levels
    /\ reference \in Backups(disk, reference.level)

\* the chain of references from a backup leads to a "full" backup through
\* backups that are in the backup directory
RECURSIVE ChainSurvives(_)
ChainSurvives(entry) ==
    \/ entry.suffix = full
    \/ /\ Survives(entry.ref)
       /\ \A child \in ValidEntries(disk) :
              Parsed(child) = entry.ref => ChainSurvives(child)

\* C3: every "diff" backup in the backup directory has a "full" backup
\* that is not younger, the reference of every "incr" backup is in the
\* backup directory and is not younger than it, and the chain of
\* references of every backup leads to a "full" backup through backups that
\* are in the backup directory.
C3_ReferencesSurvive ==
    \A entry \in ValidEntries(disk) :
        /\ entry.suffix = diff =>
               \E backup \in Backups(disk, full) :
                   backup.date <= entry.ts * MinuteLen
        /\ entry.suffix = incr =>
               /\ Survives(entry.ref)
               /\ entry.ref.date <= entry.ts * MinuteLen
        /\ ChainSurvives(entry)

\* the youngest of a set of backups, and the youngest but one
Youngest(backups) ==
    CHOOSE backup \in backups : \A other \in backups : other.date <= backup.date

Previous(backups) == Youngest(backups \ {Youngest(backups)})

Due(level) ==
    LET last_scheduled == last_scheduled_backup(disk, point_in_time, level)
        last_existing == LastExistingNow(level)
    IN  /\ last_scheduled.date # NoDate
        /\ \/ last_existing.date = NoDate
           \/ last_existing.date < last_scheduled.date

\* C11: days_overdue(L) is now - R, where R is the date of the last
\* scheduled backup of L if that is valid and the last existing backup of
\* L is not valid or strictly older, and the date of the next scheduled
\* backup of L otherwise.  Hence days_overdue(L) >= 0 exactly in the first
\* case, and it is negative in the other cases.
C11_DaysOverdue ==
    \A level \in Levels :
        LET R == IF Due(level)
                 THEN last_scheduled_backup(disk, point_in_time, level).date
                 ELSE next_scheduled_backup(point_in_time, level).date
            overdue == days_overdue(disk, point_in_time, level)
        IN  /\ overdue = point_in_time - R
            /\ overdue >= 0 <=> Due(level)
            /\ ~Due(level) => overdue < 0

\* C11 (witness): the last existing "full" backup is dated exactly at the
\* last scheduled one, so that the next "full" backup counts, while a
\* "diff" backup is overdue since the last scheduled one
C11_Witness ==
    /\ is_valid(LastExistingNow(full))
    /\ LastExistingNow(full).date
           = last_scheduled_backup(disk, point_in_time, full).date
    /\ days_overdue(disk, point_in_time, full) < 0
    /\ is_valid(LastExistingNow(diff))
    /\ days_overdue(disk, point_in_time, diff) > 0

\* C12: next_scheduled_backup(L) is the first entry of the schedule whose
\* date is strictly after the point in time and whose level is accepted
\* for L; there is such an entry at every point in time and for every
\* level, so that the assertions of next_scheduled_backup never fail.
C12_NextScheduled ==
    \A level \in Levels :
        LET next == next_scheduled_backup(point_in_time, level)
            Upcoming(i) ==
                /\ Schedule[i].date > point_in_time
                /\ Schedule[i].level <= level
        IN  /\ Len(Schedule) > 0
            /\ next # AssertionFailed
            /\ \E i \in 1 .. Len(Schedule) :
                   /\ Upcoming(i)
                   /\ Schedule[i] = next
                   /\ \A j \in 1 .. i - 1 : ~Upcoming(j)

\* C12 (witness): an "incr" backup is scheduled at the point in time
\* itself, the next one is a later "incr" backup, and the next "full"
\* backup is the last entry of the schedule
C12_Witness ==
    /\ \E i \in 1 .. Len(Schedule) :
           /\ Schedule[i] = BackupProperties(point_in_time, incr)
           /\ i + 1 < Len(Schedule)
           /\ next_scheduled_backup(point_in_time, incr) = Schedule[i + 1]
           /\ Schedule[i + 1].level = incr
    /\ next_scheduled_backup(point_in_time, full) = Schedule[Len(Schedule)]


\* ------------------------------------------------------------------------
\* properties of the existing backups
\* ------------------------------------------------------------------------

\* the valid backups in the backup directory, of all levels
AllBackups == UNION {Backups(disk, level) : level \in Levels}

\* "self" comes before "other" in the order of (date_string, level)
Before(self, other) ==
    \/ self.date \div MinuteLen < other.date \div MinuteLen
    \/ /\ self.date \div MinuteLen = other.date \div MinuteLen
       /\ self.level < other.level

\* the valid backups that are not dated after the point in time and have
\* a level that is accepted for "level"
Candidates(level) ==
    {backup \in AllBackups :
        /\ backup.date <= point_in_time
        /\ backup.level <= level}

\* C13: last_existing_backup returns the last one, in the order of
\* (date_string, level), of the valid backups that are not dated after the
\* point in time and have an accepted level ("full" for "full"; "full" or
\* "diff" for "diff"; any for "incr"); it never returns a backup dated
\* after the point in time; when there is no such backup it returns
\* invalid BackupProperties (date None) of the requested level.
C13_LastExisting ==
    \A level \in Levels :
        LET last_existing == last_existing_backup(disk, point_in_time, level)
        IN  /\ Candidates(level) = {} =>
                   last_existing = [date |-> NoDate, level |-> level]
            /\ Candidates(level) # {} =>
                   /\ last_existing \in Candidates(level)
                   /\ \A other \in Candidates(level) \ {last_existing} :
                          Before(other, last_existing)
            /\ last_existing.date <= point_in_time

\* C13 (witness): an "incr" backup is dated after the point in time and a
\* "full" backup is not; the last existing backup for "incr" is the "full"
\* backup
C13_Witness ==
    /\ \E backup \in Backups(disk, incr) : backup.date > point_in_time
    /\ is_valid(LastExistingNow(incr))
    /\ LastExistingNow(incr).level = full


\* ------------------------------------------------------------------------
\* properties of delete_old_backups
\* ------------------------------------------------------------------------

\* the valid backups of a level that were in the backup directory when
\* delete_old_backups was called
BackupsBefore(level) ==
    Backups(disk, level) \cup
        {backup \in last_run.deleted : backup.level = level}

\* the "diff" and "incr" backups that are older than the previous "full"
\* backup
OlderThanPreviousFull ==
    {backup \in BackupsBefore(diff) \cup BackupsBefore(incr) :
        backup.date < Previous(BackupsBefore(full)).date}

\* the "incr" backups that are older than the youngest of the "diff"
\* backups which are not older than the previous "full" backup
OlderThanCurrentDiff ==
    LET remaining == BackupsBefore(diff) \ OlderThanPreviousFull
    IN  IF remaining = {} THEN {}
        ELSE {backup \in BackupsBefore(incr) :
                 backup.date < Youngest(remaining).date}

\* C14: when delete_old_backups has run for a "full" backup and two or
\* more "full" backups exist, it has deleted exactly the "diff" and "incr"
\* backups dated strictly before the previous (youngest but one) "full"
\* backup and the "incr" backups dated strictly before the youngest "diff"
\* backup that is left after that; a "diff" or "incr" backup dated exactly
\* at the previous "full" backup, and an "incr" backup dated exactly at
\* that "diff" backup, are kept.
C14_DeletionAfterFull ==
    /\ last_run.pruned
    /\ last_run.level = full
    /\ Cardinality(BackupsBefore(full)) >= 2
    => last_run.deleted = OlderThanPreviousFull \cup OlderThanCurrentDiff

\* C15: when delete_old_backups has run for a "diff" backup and two or
\* more "diff" backups exist, it has deleted exactly the "incr" backups
\* dated strictly before the previous (youngest but one) "diff" backup; no
\* "diff" backup and no "incr" backup dated at or after the previous "diff"
\* backup is deleted.
C15_DeletionAfterDiff ==
    /\ last_run.pruned
    /\ last_run.level = diff
    /\ Cardinality(BackupsBefore(diff)) >= 2
    => last_run.deleted =
           {backup \in BackupsBefore(incr) :
               backup.date < Previous(BackupsBefore(diff)).date}

C17_FindExisting ==
    \A prior_to \in Times \cup {NoDate} :
        LET found == find_existing_backups(disk, prior_to)
            expected ==
                IF prior_to = NoDate THEN AllBackups
                ELSE {backup \in AllBackups : backup.date <= prior_to}
        IN  /\ Range(found) = expected
            /\ Len(found) = Cardinality(expected)
            /\ \A i, j \in 1 .. Len(found) :
                   i < j => Before(found[i], found[j])

\* C17 (witness): a "diff" backup is dated exactly at the point in time,
\* a "full" backup is older and both are returned for the point in time
C17_Witness ==
    /\ BackupProperties(point_in_time, diff) \in AllBackups
    /\ \E backup \in Backups(disk, full) : backup.date < point_in_time
    /\ Len(find_existing_backups(disk, point_in_time)) = 2
    /\ find_existing_backups(disk, point_in_time)[2].date = point_in_time

\* the elements of a sequence that have a given level, in their order
RECURSIVE OfLevel(_, _)
OfLevel(s, level) ==
    IF s = <<>> THEN <<>>
    ELSE (IF Head(s).level = level THEN <<Head(s)>> ELSE <<>>)
             \o OfLevel(Tail(s), level)

Created ==
    {entry \in disk' :
        \A other \in remove_empty_directories(disk) :
            Name(other) # Name(entry)}

\* "reference" is one of "backups", and none of them is younger
MostRecent(reference, backups) ==
    /\ reference \in backups
    /\ \A backup \in backups : backup.date <= reference.date

\* C19: when run_dar creates a backup, a "full" backup gets no reference,
\* a "diff" backup gets the most recent existing "full" backup as
\* reference, and an "incr" backup (a forced one, too) gets the most
\* recent existing backup of any level.
C19_References ==
    [][\A entry \in Created :
           /\ entry.suffix = full => entry.ref = NoReference
           /\ entry.suffix = diff =>
                  MostRecent(entry.ref, Backups(disk, full))
           /\ entry.suffix = incr =>
                  MostRecent(entry.ref, AllBackups)]_vars

\* C19 (witness): the backup directory holds a "diff" backup that refers
\* to a "full" backup, an "incr" backup that refers to a "diff" backup and
\* an "incr" backup that refers to an "incr" backup
C19_Witness ==
    /\ \E entry \in ValidEntries(disk) :
           entry.suffix = diff /\ entry.ref.level = full
    /\ \E entry \in ValidEntries(disk) :
           entry.suffix = incr /\ entry.ref.level = diff
    /\ \E entry \in ValidEntries(disk) :
           entry.suffix = incr /\ entry.ref.level = incr


\* ------------------------------------------------------------------------
\* properties of the steps of a run
\* ------------------------------------------------------------------------

\* the order of the steps: the archiver is called twice, to create the
\* archive and to isolate the catalog
StepOrder ==
    <<"pre-run", "decision", "create", "isolate", "prune", "post-run">>

\* the place of a step in the order
Rank(name) == CHOOSE i \in 1 .. Len(StepOrder) : StepOrder[i] = name

\* the steps of the run that have the name "name"
Done(name) == {i \in 1 .. Len(job.steps) : job.steps[i].step = name}

\* C20: the steps of a run are taken in the order pre-run command,
\* decision, archiver, deletion of old backups, post-run command, each one
\* after the one before it has ended and none twice; the archiver is
\* called only after the decision has returned a level; old backups are
\* deleted only after "dar --create" and "dar --isolate" have both ended
\* without an error (with status 0 or with the status that is a warning).
C20_StepOrder ==
    /\ \A i, j \in 1 .. Len(job.steps) :
           i < j => Rank(job.steps[i].step) < Rank(job.steps[j].step)
    /\ job.steps # <<>> => job.steps[1].step = "pre-run"
    /\ job.pc = "done" => job.steps[Len(job.steps)].step = "post-run"
    /\ Done("create") \cup Done("isolate") # {} =>
           /\ Done("decision") # {}
           /\ job.level \in Levels
    /\ Done("prune") # {} =>
           /\ \E i \in Done("create") : job.steps[i].retcode \in {0, 11}
           /\ \E i \in Done("isolate") : job.steps[i].retcode \in {0, 5}

\* C21: every run that has started executes the post-run command, and
\* when the run is over it has executed it exactly once, as its last step:
\* when no backup is needed, when the backup has been created, and when
\* the pre-run command, the decision, "dar --create", "dar --isolate" or
\* delete_old_backups has raised an error.
C21_PostRunHook ==
    /\ [](job.pc = "done" =>
             /\ Cardinality(Done("post-run")) = 1
             /\ job.steps[Len(job.steps)].step = "post-run")
    /\ [](job.pc \notin {"done", "idle"} => Done("post-run") = {})
    /\ (job.pc = "pre-run") ~> (job.pc = "done")

\* C21 (witness): delete_old_backups has raised an error and the post-run
\* command has been executed after it
C21_Witness ==
    /\ job.pc = "done"
    /\ \E i \in Done("prune") : job.steps[i].raised
    /\ Done("post-run") # {}


\* ------------------------------------------------------------------------
\* properties of the memoization
\* ------------------------------------------------------------------------

\* what the function of a key returns for the point in time when it is
\* called without the cache
Uncached(key) ==
    IF key = ScheduleKey
    THEN calculate_backup_schedule(point_in_time)
    ELSE NextScheduled(calculate_backup_schedule(point_in_time),
                       point_in_time, key.arg)

Reading ==
    {"find_existing_backups", "last_existing_backup", "days_overdue",
     "needed_backup_level"}

\* C23: when the backup directory cannot be listed, find_existing_backups,
\* last_existing_backup, days_overdue and needed_backup_level end with an
\* exception and return nothing; called with a valid level (or with none)
\* they end with the OSError of os.listdir.
C23_ListingFails ==
    returned.key.function \in Reading /\ ~returned.listable =>
        /\ returned.value.exception # "None"
        /\ \/ /\ returned.key.function \in LevelQueries
              /\ returned.key.arg \notin Levels
           \/ returned.value.exception = "OSError"

\* C23 (witness): needed_backup_level has raised OSError while a backup
\* is in the backup directory and the schedule has begun
C23_Witness ==
    /\ returned.key.function = "needed_backup_level"
    /\ ~returned.listable
    /\ returned.value.exception = "OSError"
    /\ disk # {}
    /\ point_in_time >= start_time


\* C25: last_scheduled_backup, next_scheduled_backup, last_existing_backup
\* and days_overdue, called with a level that is none of full, diff and
\* incr (-1, 3, None or a string) while the backup directory can be
\* listed, raise the ValueError of the check of the level and return
\* nothing.
C25_InvalidLevel ==
    /\ returned.key.function \in LevelQueries
    /\ returned.key.arg \notin Levels
    /\ returned.listable
    => returned.value.exception = "ValueError"


\* ------------------------------------------------------------------------
\* properties of the options
\* ------------------------------------------------------------------------

\* C26: an interval that is zero or negative is not passed on to the
\* calculation of the schedule: an interval that a loop of the calculation
\* has read and added is positive, the variable of a loop grows with every
\* iteration (the loop ends), and a schedule that has been filled was
\* calculated with 0 < interval_incr <= interval_diff <= interval_full.
C26_IntervalsChecked ==
    /\ job.pc = "while" /\ Len(job.steps) > 1 => interval_full > 0
    /\ job.pc = "fill" /\ job.steps # <<>> =>
           IF job.level = diff THEN interval_diff > 0 ELSE interval_incr > 0
    /\ job.pc \in {"while", "fill"} =>
           \A i \in 2 .. Len(job.steps) : job.steps[i - 1] < job.steps[i]
    /\ /\ returned.key = ScheduleKey
       /\ returned.value.exception = "None"
       /\ Len(returned.value.value) > 1
       => /\ 0 < interval_incr
          /\ interval_incr <= interval_diff
          /\ interval_diff <= interval_full


\* ------------------------------------------------------------------------
\* properties of the scenarios
\* ------------------------------------------------------------------------

\* the levels of a schedule
LevelsOf(schedule) == [i \in 1 .. Len(schedule) |-> schedule[i].level]

\* the settings are the ones of the scenarios (10, 3 and 1 days)
Scenario ==
    /\ interval_full = 10 * Day
    /\ interval_diff = 3 * Day
    /\ interval_incr = Day

\* the settings are the ones of the unit tests (9.5, 4 and 1 days)
UnitTest ==
    /\ interval_full = (19 * Day) \div 2
    /\ interval_diff = 4 * Day
    /\ interval_incr = Day

\* C27: with the intervals 10, 3 and 1 days, at the start time 2012-01-01
\* 20:00 and with an empty backup directory the schedule is Full, Incr,
\* Incr, Incr, Diff, Incr, Incr, Incr, Diff, Incr, Full, from the Full at
\* 2012-01-01 20:00 to the Full at 2012-01-11 08:00, and the needed level
\* is "full".
C27_ScheduleAtStart ==
    Scenario /\ point_in_time = start_time /\ disk = {} =>
        /\ LevelsOf(Schedule) =
               <<full, incr, incr, incr, diff, incr, incr, incr, diff, incr,
                 full>>
        /\ Schedule[1].date = start_time
        /\ Schedule[Len(Schedule)].date = start_time + (19 * Day) \div 2
        /\ needed_backup_level(disk, point_in_time, FALSE) = full

\* C27 (amended): at the start time 2012-01-01 20:00 and with an empty
\* backup directory the needed level is "full" and the schedule begins
\* with the Full at 2012-01-01 20:00.  With the intervals 10, 3 and 1 days
\* it is Full, Incr, Incr, Diff, Incr, Incr, Diff, Incr, Incr, Diff, Full,
\* the last at 2012-01-11 20:00; with the intervals 9.5, 4 and 1 days it is
\* Full, Incr, Incr, Incr, Diff, Incr, Incr, Incr, Diff, Incr, Full, the
\* last at 2012-01-11 08:00.
C27_ScheduleAtStartAmended ==
    point_in_time = start_time /\ disk = {} =>
        /\ Schedule[1] = BackupProperties(start_time, full)
        /\ needed_backup_level(disk, point_in_time, FALSE) = full
        /\ Scenario =>
               /\ LevelsOf(Schedule) =
                      <<full, incr, incr, diff, incr, incr, diff, incr, incr,
                        diff, full>>
               /\ Schedule[Len(Schedule)].date = start_time + 10 * Day
        /\ UnitTest =>
               /\ LevelsOf(Schedule) =
                      <<full, incr, incr, incr, diff, incr, incr, incr, diff,
                        incr, full>>
               /\ Schedule[Len(Schedule)].date
                      = start_time + (19 * Day) \div 2

\* C27 (witness): the scenario at the start time, with nothing in the
\* backup directory and a schedule of eleven backups
C27_Witness ==
    /\ Scenario
    /\ point_in_time = start_time
    /\ disk = {}
    /\ Len(Schedule) = 11


\* C28: with the intervals 10, 3 and 1 days, the Full of 2012-01-01 20:00
\* as the only backup and the point in time 2012-01-02 20:01, the needed
\* level is "incr": neither a Full nor a Diff is due, and the Incr that is
\* scheduled for 2012-01-02 20:00 is overdue by one minute.
C28_IncrAfterADay ==
    /\ Scenario
    /\ point_in_time = start_time + Day + MinuteLen
    /\ find_existing_backups(disk, NoDate)
           = <<BackupProperties(start_time, full)>>
    => /\ \A force_backup \in BOOLEAN :
              needed_backup_level(disk, point_in_time, force_backup) = incr
       /\ days_overdue(disk, point_in_time, full) < 0
       /\ days_overdue(disk, point_in_time, diff) < 0
       /\ last_scheduled_backup(disk, point_in_time, incr)
              = BackupProperties(start_time + Day, incr)
       /\ days_overdue(disk, point_in_time, incr) = MinuteLen

\* C28 (witness): the scenario one day and one minute after the start
\* time, with the Full of the start time as the only backup
C28_Witness ==
    /\ Scenario
    /\ point_in_time = start_time + Day + MinuteLen
    /\ Cardinality(disk) = 1
    /\ \E entry \in disk : Parsed(entry) = BackupProperties(start_time, full)
    /\ needed_backup_level(disk, point_in_time, FALSE) = incr


\* ------------------------------------------------------------------------
\* properties of BackupProperties
\* ------------------------------------------------------------------------

\* the BackupProperties at hand: the existing backups, the scheduled ones,
\* and what the last query returned
AtHand ==
    Range(find_existing_backups(disk, NoDate))
        \cup Range(Schedule)
        \cup IF /\ returned.key.function
                       \in {"last_existing_backup", "last_scheduled_backup",
                            "next_scheduled_backup"}
                /\ returned.value.exception = "None"
             THEN {returned.value.value}
             ELSE {}

\* the order on (date_string, level) in which the date string of an
\* invalid backup comes before every date
Precedes(self, other) ==
    LET rank(backup) == IF is_valid(backup) THEN date_string(backup) + 1
                        ELSE 0
    IN  \/ rank(self) < rank(other)
        \/ rank(self) = rank(other) /\ self.level < other.level

\* C29: BackupProperties are ordered lexicographically on (date_string,
\* level), and a BackupProperties without a date comes before every one
\* that has a date.
C29_Ordering ==
    \A self, other \in AtHand : Lt(self, other) <=> Precedes(self, other)


\* the valid backup directory named base_name(backup)
Directory(backup) ==
    Entry(base_name(backup)[1], base_name(backup)[2], base_name(backup)[3],
          TRUE, TRUE, TRUE, FALSE, NoReference)

\* what the scan of a backup directory that holds Directory(backup) and
\* nothing else returns for it
RoundTrip(backup) == find_existing_backups({Directory(backup)}, NoDate)[1]

\* the BackupProperties with a date at hand: the scheduled backups and
\* the existing ones (the last minutes of the schedule may lie after the
\* minutes that the model has timestamps for)
Dated ==
    {backup \in Range(Schedule)
                    \cup Range(find_existing_backups(disk, NoDate)) :
        date_string(backup) \in Minutes}

\* C30: for every BackupProperties with a date, the scan of a directory
\* that is named by its base name returns the same date and the same
\* level.
C30_RoundTrip ==
    \A backup \in Dated :
        /\ RoundTrip(backup).date = backup.date
        /\ RoundTrip(backup).level = backup.level

\* C30 (amended): for every BackupProperties with a date, the scan of a
\* directory that is named by its base name returns the same level and
\* the same date string, that is a BackupProperties that __eq__ takes for
\* equal; the date returned is the beginning of the minute that the date
\* lies in, and it is the same date if and only if the date is a whole
\* minute.
C30_RoundTripAmended ==
    \A backup \in Dated :
        /\ Len(find_existing_backups({Directory(backup)}, NoDate)) = 1
        /\ RoundTrip(backup).level = backup.level
        /\ date_string(RoundTrip(backup)) = date_string(backup)
        /\ Eq(RoundTrip(backup), backup)
        /\ RoundTrip(backup).date <= backup.date
        /\ backup.date - RoundTrip(backup).date < MinuteLen
        /\ RoundTrip(backup).date % MinuteLen = 0
        /\ RoundTrip(backup).date = backup.date <=>
               backup.date % MinuteLen = 0

\* C30 (witness): a backup is scheduled for a date that is no whole
\* minute, and a backup exists
C30_Witness ==
    /\ \E backup \in Range(Schedule) :
           /\ backup.date % MinuteLen # 0
           /\ RoundTrip(backup).date # backup.date
    /\ \E backup \in Range(find_existing_backups(disk, NoDate)) :
           RoundTrip(backup) = backup


\* ------------------------------------------------------------------------
\* properties of the settings
\* ------------------------------------------------------------------------

\* C31: Settings.get with allow_empty false raises one and the same error
\* for an option that is missing and for an option whose value is the
\* empty string; with allow_empty true it returns the empty string for a
\* missing option and raises nothing.
C31_MissingOrEmpty ==
    returned.key.function = "get" =>
        /\ /\ ~returned.allow_empty
           /\ Configured(returned.key.arg) \in {MissingOption, EmptyOption}
           => returned.value.exception = "NoOptionError"
        /\ /\ returned.allow_empty
           /\ Configured(returned.key.arg) = MissingOption
           => returned.value = Returns(EmptyOption)

\* ------------------------------------------------------------------------
\* properties of the program
\* ------------------------------------------------------------------------

\* the runs of the sections that have raised an exception
FailedSections ==
    {i \in 1 .. Len(main.runs) : main.runs[i].exception # "None"}

\* the runs of the sections in which "dar" has been run or backups have
\* been deleted
BackedUpSections ==
    {i \in 1 .. Len(main.runs) :
        \/ main.runs[i].run.level # NoBackup
        \/ main.runs[i].run.deleted # {}}

C33_ConfigurationError ==
    /\ main.pc = "exit"
    /\ \E i \in FailedSections : ~Except(main.runs[i].exception)
    => BackedUpSections = {}

\* ------------------------------------------------------------------------
\* properties of the decision and of the run that follows it
\* ------------------------------------------------------------------------

\* the reference that run_dar looks up for a backup of "level" at the
\* point in time
ReferenceNow(level) ==
    IF level = diff THEN last_existing_backup(disk, point_in_time, full)
    ELSE last_existing_backup(disk, point_in_time, incr)

\* C35: whenever needed_backup_level returns "diff", "incr" or the forced
\* "incr", the backup directory holds a valid "full" that is not after the
\* point in time and not older than the latest scheduled "full", and the
\* reference that run_dar looks up (the last existing "full" for a "diff",
\* the last existing backup of any level for an "incr") is a valid backup.
C35_ReferenceExists ==
    \A force_backup \in BOOLEAN :
        LET needed == needed_backup_level(disk, point_in_time, force_backup)
        IN  needed \in {diff, incr, incr_forced} =>
                /\ \E backup \in Backups(disk, full) :
                       /\ is_valid(backup)
                       /\ backup.date <= point_in_time
                       /\ backup.date >= LatestScheduled(full).date
                /\ is_valid(ReferenceNow(IF needed = diff THEN diff
                                         ELSE incr))
                /\ ReferenceNow(diff).level = full

\* C35 (witness): an "incr" is needed and its reference is a "diff" that
\* is newer than the "full" of the cycle
C35_Witness ==
    /\ needed_backup_level(disk, point_in_time, FALSE) = incr
    /\ ReferenceNow(incr).level = diff
    /\ ReferenceNow(diff).date < ReferenceNow(incr).date

\* the directory of a backup of "level" that is dated at the point in time
\* or, when that is no whole minute, at the minute it lies in
TakenNow(level) ==
    Entry(point_in_time \div MinuteLen, level, FALSE, TRUE, TRUE, TRUE,
          FALSE, NoReference)

\* the backup of the level that is needed is taken at the point in time:
\* no backup on disk is later than the point in time, which is not before
\* the start time, and a valid backup of that level which is dated at the
\* point in time appears
TakesNeeded ==
    /\ point_in_time' = point_in_time
    /\ point_in_time >= start_time
    /\ NoneLater(disk, point_in_time)
    /\ \E level \in Levels :
        /\ needed_backup_level(disk, point_in_time, FALSE) = level
        /\ Parsed(TakenNow(level)).date = point_in_time
        /\ TakenNow(level) \notin disk
        /\ disk' = disk \cup {TakenNow(level)}

\* C36: when needed_backup_level(False) returns a level at a point in time
\* from the start time on, with no backup on disk after that point in
\* time, and a valid backup of that level dated at the point in time is
\* added, needed_backup_level(False) returns None at this point in time.
C36_NeedCleared ==
    [][TakesNeeded =>
           needed_backup_level(disk', point_in_time', FALSE) = NoBackup]_vars

\* C36 (witness): a "diff" dated at the point in time has been added to a
\* "full", and it was needed
C36_Witness ==
    /\ point_in_time >= start_time
    /\ NoneLater(disk, point_in_time)
    /\ TakenNow(diff) \in disk
    /\ Parsed(TakenNow(diff)).date = point_in_time
    /\ Cardinality(disk) = 2
    /\ needed_backup_level(disk \ {TakenNow(diff)}, point_in_time, FALSE)
           = diff
    /\ needed_backup_level(disk, point_in_time, FALSE) = NoBackup

\* ------------------------------------------------------------------------
\* properties of the ideal operation
\* ------------------------------------------------------------------------

\* the times of the scheduled backups from the start time to the point in
\* time are whole minutes, so that every backup taken so far is dated at
\* the time it was scheduled for
DatedAsScheduled ==
    \A now \in start_time .. point_in_time :
        ScheduledAt(now) # {} => now % MinuteLen = 0

\* C37: in the ideal operation, with every backup dated at the time it was
\* scheduled for, needed_backup_level(False) returns the level of the
\* scheduled backup at the time of every scheduled backup, and None at
\* every time between two scheduled backups.
C37_FollowsSchedule ==
    DatedAsScheduled =>
        /\ \A backup \in ScheduledAt(point_in_time) :
               IF job.timestamp = point_in_time
               THEN job.level = backup.level
               ELSE needed_backup_level(disk, point_in_time, FALSE)
                        = backup.level
        /\ ScheduledAt(point_in_time) = {} =>
               needed_backup_level(disk, point_in_time, FALSE) = NoBackup

\* ------------------------------------------------------------------------
\* properties of the decision as time passes
\* ------------------------------------------------------------------------

\* C38: with no backup on disk after the point in time and the backup
\* directory unchanged, a level that needed_backup_level(False) returns
\* at the point in time is followed at every later point in time by that
\* level or a more general one ("full" after "full"; "full" or "diff"
\* after "diff"; any level after "incr"), never by None, also several
\* cycles later.
C38_NeedEscalates ==
    \A later \in Times :
        LET needed == needed_backup_level(disk, point_in_time, FALSE)
            then == needed_backup_level(disk, later, FALSE)
        IN  /\ later > point_in_time
            /\ NoneLater(disk, point_in_time)
            /\ needed \in Levels
            => /\ then \in Levels
               /\ then <= needed

\* C38 (witness): an "incr" is needed after a "full" and a "diff", a
\* "diff" is needed later in the cycle, and a "full" is needed two cycles
\* later
C38_Witness ==
    /\ NoneLater(disk, point_in_time)
    /\ Backups(disk, full) # {}
    /\ Backups(disk, diff) # {}
    /\ needed_backup_level(disk, point_in_time, FALSE) = incr
    /\ \E later \in Times :
        /\ later > point_in_time
        /\ needed_backup_level(disk, later, FALSE) = diff
    /\ \E later \in Times :
        /\ later >= point_in_time + 2 * interval_full
        /\ needed_backup_level(disk, later, FALSE) = full

\* ------------------------------------------------------------------------
\* properties of the deletion of the archive files
\* ------------------------------------------------------------------------

\* the directory "entry" is empty
Empty(entry) ==
    entry.isdir /\ ~entry.files /\ ~entry.catalog /\ ~entry.other

\* the backup of "entry" has been deleted by the run that ends in the
\* next state: it is among the deleted backups, no child of the backup
\* directory has its name, and no result of find_existing_backups holds
\* it, whatever "prior_to" is
Pruned(entry) ==
    /\ entry \in ValidEntries(disk)
    /\ Parsed(entry) \in last_run'.deleted
    /\ \A child \in disk' : Name(child) # Name(entry)
    /\ \A prior_to \in Times \cup {NoDate} :
           Parsed(entry) \notin
               Range(find_existing_backups(disk', prior_to))

\* C39: when a run has pruned, every backup it has deleted was a valid
\* backup whose directory is gone (nothing but the archive files, the
\* checksums and the catalog was in it) and which is in no result of
\* find_existing_backups afterwards; every other child of the backup
\* directory is left as it was, unless it was an empty directory, which
\* the run removes at its start.
C39_PrunedIsGone ==
    [][last_run'.pruned /\ disk' # disk =>
           /\ \A entry \in disk :
                  entry \in disk' \/ Empty(entry) \/ Pruned(entry)
           /\ \A backup \in last_run'.deleted :
                  \E entry \in disk :
                      Parsed(entry) = backup /\ Pruned(entry)]_vars

\* C39 (witness): a run has deleted a backup, its directory is gone, and
\* backups that were taken before that run are still there
C39_Witness ==
    /\ last_run.pruned
    /\ last_run.deleted # {}
    /\ \A backup \in last_run.deleted :
           \A child \in disk : Name(child) # base_name(backup)
    /\ Cardinality(disk) >= 3
====
